---- MODULE Spec2Model ----
(***************************************************************************)
(* A model of the retained-mode object tree of rtthw/idea-demo:            *)
(* base/src/object_tree.rs (the node store and the tree-level entry        *)
(* points), base/src/lib.rs (the Update, Layout/Measure, Compose, Render   *)
(* and Event passes, hit-testing and hover maintenance) and                *)
(* base/src/math.rs (the geometry the passes use).                         *)
(*                                                                         *)
(* Conventions.                                                            *)
(*  - Option<T> is a set with at most one element: None == {}, Some(x) ==  *)
(*    {x}.                                                                 *)
(*  - An f32 coordinate is an integer count of HALF units (3 is 1.5), so   *)
(*    that f32::round is not the identity.                                 *)
(*  - Affine transforms keep only their translation: local_transform is    *)
(*    IDENTITY from ObjectState::new on and nothing assigns it, so the     *)
(*    linear part of every transform the passes build is the identity.     *)
(*  - A pass is one atomic action.  The callbacks of the Object trait are  *)
(*    the code of the loaded objects: what a callback does with its pass   *)
(*    context is the behaviour record b, chosen with the objects in Init.  *)
(*  - A panic (expect/unwrap on None) sets fatal and ends the run.         *)
(***************************************************************************)
EXTENDS Integers, Sequences, FiniteSets, TLC

VARIABLES
    loaded,     \* whether ObjectTree::new has run (main.rs: Program.handle)
    objects,    \* id -> the object's own fields: its ChildObject list
    behaviour,  \* what the objects' callbacks do with their pass context
    newKids,    \* ids of the ChildObjects whose inner is still New(builder)
    nodes,      \* ObjectTree.nodes: id -> [state, children]
    parents,    \* ObjectTree.parents: id -> Option<id>
    inter,      \* ObjectTree.interaction
    fatal,      \* a panic has aborted the program
    last,       \* what the last operation did: [op, arg, log]
    next_object_id, \* the static NEXT_OBJECT_ID of ObjectBuilder::new
    identities, \* the identities given to nodes so far: [by, id] in order
    walk,       \* the loop of a pass that is being followed step by step
    host        \* main.rs: the Program, its compilation threads, the .so file

vars ==
    <<loaded, objects, behaviour, newKids, nodes, parents, inter, fatal, last,
      next_object_id, identities, walk, host>>

-----------------------------------------------------------------------------
(* Bounds of the model. *)

\* Largest object id; ids are 0 (the root) .. MaxId.
MaxId == 2

\* How many times an update_children callback calls update_child on one
\* ChildObject.
MaxRepeat == 2

\* How many identities are given out after the objects of the tree were
\* built.
MaxCalls == 4

-----------------------------------------------------------------------------
(* Program constants. *)

\* object_tree.rs:27   let root_id = 0;
RootId == 0

\* object_tree.rs:516  static NEXT_OBJECT_ID: AtomicU64 = AtomicU64::new(1);
FirstBuilderId == 1

Ids == RootId..MaxId
KidIds == FirstBuilderId..MaxId

None == {}
Some(x) == {x}
Unwrap(o) == CHOOSE x \in o : TRUE

\* HashMap::insert
Insert(f, k, v) == [x \in (DOMAIN f) \cup {k} |-> IF x = k THEN v ELSE f[x]]

\* The elements of a set of ids as an ascending sequence.
RECURSIVE SortedSeq(_)
SortedSeq(S) ==
    IF S = {} THEN <<>>
    ELSE LET m == CHOOSE x \in S : \A y \in S : x <= y
         IN <<m>> \o SortedSeq(S \ {m})

SeqToSet(s) == {s[i] : i \in 1..Len(s)}

-----------------------------------------------------------------------------
(* math.rs *)

\* f32::round on a half-unit count: to the nearest whole unit, halves away
\* from zero.
RoundF32(h) ==
    IF h >= 0 THEN 2 * ((h + 1) \div 2) ELSE 0 - 2 * ((1 - h) \div 2)

PointZERO == <<0, 0>>
SizeZERO == <<0, 0>>

\* Size::round
SizeRound(s) == <<RoundF32(s[1]), RoundF32(s[2])>>

\* Point::round
PointRound(p) == <<RoundF32(p[1]), RoundF32(p[2])>>

\* impl Add for Point
PointAdd(p, q) == <<p[1] + q[1], p[2] + q[2]>>

\* Point::add_size
AddSize(p, s) == <<p[1] + s[1], p[2] + s[2]>>

\* Area::max_point
MaxPoint(a) == AddSize(a.position, a.size)

AreaZERO == [position |-> PointZERO, size |-> SizeZERO]

\* Area::contains, with the comparison of the maximum edge taken as given
AreaContainsWith(a, p, maxInclusive) ==
    /\ a.position[1] <= p[1]
    /\ a.position[2] <= p[2]
    /\ IF maxInclusive
       THEN MaxPoint(a)[1] >= p[1] /\ MaxPoint(a)[2] >= p[2]
       ELSE MaxPoint(a)[1] > p[1] /\ MaxPoint(a)[2] > p[2]

\* Area::contains
AreaContains(a, p) == AreaContainsWith(a, p, FALSE)

\* Affine::transform_area for a transform whose linear part is the identity:
\* the four corners are translated, and the union of the two edges is the
\* translated rectangle.
TransformArea(t, a) ==
    [position |-> PointAdd(a.position, t), size |-> a.size]

-----------------------------------------------------------------------------
(* lib.rs: ObjectState *)

\* An ObjectState::new whose state does not ask for a layout.
ObjectStateNewLaidOut ==
    [ global_area |-> AreaZERO,
      global_transform |-> PointZERO,
      layout_area |-> AreaZERO,
      scroll_translation |-> PointZERO,
      needs_layout |-> FALSE,
      needs_compose |-> TRUE,
      wants_compose |-> TRUE,
      children_changed |-> TRUE,
      transformed |-> TRUE,
      hovered |-> FALSE ]

\* ObjectState::new
ObjectStateNew ==
    [ global_area |-> AreaZERO,
      global_transform |-> PointZERO,
      layout_area |-> AreaZERO,
      scroll_translation |-> PointZERO,
      needs_layout |-> TRUE,
      needs_compose |-> TRUE,
      wants_compose |-> TRUE,
      children_changed |-> TRUE,
      transformed |-> TRUE,
      hovered |-> FALSE ]

\* ObjectState::merge_with_child with only the needs_layout line
MergeLayoutOnly(ps, cs) ==
    [ps EXCEPT !.needs_layout = @ \/ cs.needs_layout]

\* ObjectState::merge_with_child that merges nothing
MergeNothing(ps, cs) == ps

\* A merge that copies the child's flags into the parent's.
MergeAssigning(ps, cs) ==
    [ps EXCEPT !.needs_layout = cs.needs_layout,
               !.children_changed = cs.children_changed]

\* ObjectState::merge_with_child
merge_with_child(ps, cs) ==
    [ps EXCEPT !.needs_layout = @ \/ cs.needs_layout,
               !.children_changed = @ \/ cs.children_changed]

-----------------------------------------------------------------------------
(* The world a pass works on: the tree, the ChildObject handles the        *)
(* objects hold, the panic flag and the log of callbacks invoked.          *)

World ==
    [nodes |-> nodes, parents |-> parents, newKids |-> newKids,
     inter |-> inter, fatal |-> fatal, log |-> <<>>]

Panic(w) == [w EXCEPT !.fatal = TRUE]

Logged(w, tag, id) == [w EXCEPT !.log = Append(@, <<tag, id>>)]

SetState(w, id, s) == [w EXCEPT !.nodes[id].state = s]

\* Object::children_ids of the containers of this model: the ids of the
\* ChildObjects the object holds, in the order it holds them.
children_ids(id) == objects[id].kids

-----------------------------------------------------------------------------
(* object_tree.rs: the store *)

\* ObjectChildrenMut::has / ObjectChildrenRef::has
has(w, parent_id, id) ==
    id \in DOMAIN w.parents /\ w.parents[id] = Some(parent_id)

\* ObjectChildrenMut::get_mut / get: Some(node) exactly when the id is a
\* child of parent_id and is in all_nodes
get_ok(w, parent_id, id) ==
    has(w, parent_id, id) /\ id \in DOMAIN w.nodes

\* ObjectTree::find / find_mut
find_ok(w, id) == id \in DOMAIN w.parents /\ id \in DOMAIN w.nodes

\* A push that records no parent for the new node.
PushWithoutParent(w, parent_id, id) ==
    LET w1 == [w EXCEPT !.parents = Insert(@, id, None)]
        w2 == [w1 EXCEPT !.nodes[parent_id].children = Append(@, id)]
    IN [w2 EXCEPT !.nodes =
            Insert(@, id, [state |-> ObjectStateNew, children |-> <<>>])]

\* ObjectChildrenMut::push
push(w, parent_id, id) ==
    LET w1 == [w EXCEPT !.parents = Insert(@, id, Some(parent_id))]
        w2 == [w1 EXCEPT !.nodes[parent_id].children = Append(@, id)]
    IN [w2 EXCEPT !.nodes =
            Insert(@, id, [state |-> ObjectStateNew, children |-> <<>>])]

\* UpdatePass::update_child without the take_inner test
UpdateChildAlways(w, parent_id, k) ==
    push([w EXCEPT !.newKids = @ \ {k}], parent_id, k)

\* UpdatePass::update_child, ChildObject::take_inner
update_child(w, parent_id, k) ==
    IF k \notin w.newKids
    THEN w
    ELSE push([w EXCEPT !.newKids = @ \ {k}], parent_id, k)

-----------------------------------------------------------------------------
(* lib.rs: what every pass context offers (multi_impl!, lines 668-708) *)

\* request_layout
request_layout(w, id) ==
    [w EXCEPT !.nodes[id].state.needs_layout = TRUE]

\* request_compose
request_compose(w, id) ==
    [Logged(w, "request_compose", id)
        EXCEPT !.nodes[id].state.needs_compose = TRUE,
               !.nodes[id].state.wants_compose = TRUE]

\* A callback of node id calls request_layout when the behaviour b lists
\* <<callback, id>> in b.req; the log entry names the node and the callback.
\* It calls request_compose when b lists the pair in b.creq.
MaybeRequest(w, cb, id, b) ==
    LET w1 == IF <<cb, id>> \in b.req
              THEN request_layout(
                      [w EXCEPT !.log = Append(@, <<"request_layout", id, cb>>)],
                      id)
              ELSE w
    IN IF <<cb, id>> \in b.creq THEN request_compose(w1, id) ELSE w1

\* The ids whose needs_layout flag is set.
NeedsLayoutSet(w) == {i \in DOMAIN w.nodes : w.nodes[i].state.needs_layout}

\* The end of a pass, with the needs_layout flags it leaves.
PassEnd(w) == IF w.fatal THEN w ELSE Logged(w, "pass_end", NeedsLayoutSet(w))

-----------------------------------------------------------------------------
(* lib.rs: Update pass *)

RECURSIVE Repeat_update_child(_, _, _, _)
Repeat_update_child(w, parent_id, k, n) ==
    IF n = 0 THEN w
    ELSE Repeat_update_child(
             update_child(Logged(w, "update_child", k), parent_id, k),
             parent_id, k, n - 1)

\* Object::update_children of a container: update_child on each ChildObject
\* it holds (b.reps times; never on b.skip), then what else b asks for.
RECURSIVE UpdateChildrenKids(_, _, _, _)
UpdateChildrenKids(w, id, i, b) ==
    IF i > Len(objects[id].kids) THEN w
    ELSE LET k == objects[id].kids[i]
             w1 == IF k \in b.skip THEN w
                   ELSE Repeat_update_child(w, id, k, b.reps)
         IN UpdateChildrenKids(w1, id, i + 1, b)

update_children(w, id, b) ==
    MaybeRequest(UpdateChildrenKids(Logged(w, "update_children", id), id, 1, b),
                 "update_children", id, b)

RECURSIVE update_object_tree(_, _, _)
RECURSIVE UpdateEachChild(_, _, _, _)

\* for_each_child_object with update_object_tree's closure
UpdateEachChild(w, id, i, b) ==
    IF w.fatal \/ i > Len(children_ids(id)) THEN w
    ELSE LET c == children_ids(id)[i]
         IN IF ~get_ok(w, id, c) THEN Panic(w)
            ELSE LET w1 == update_object_tree(w, c, b)
                     w2 == IF w1.fatal THEN w1
                           ELSE SetState(w1, id,
                                    merge_with_child(w1.nodes[id].state,
                                                     w1.nodes[c].state))
                 IN UpdateEachChild(w2, id, i + 1, b)

\* update_object_tree
update_object_tree(w, id, b) ==
    IF w.fatal \/ ~w.nodes[id].state.children_changed THEN w
    ELSE LET w1 == [w EXCEPT !.nodes[id].state.children_changed = FALSE]
             w2 == update_children(w1, id, b)
         IN UpdateEachChild(w2, id, 1, b)

\* update_pass
update_pass(w, b) ==
    IF w.fatal THEN w
    ELSE PassEnd(update_object_tree(Logged(w, "update_pass", RootId), RootId, b))

-----------------------------------------------------------------------------
(* lib.rs: Layout and Measure passes *)

\* The lengths a parent asks resolve_length for (lib.rs:533 enum Length).
Exact(n) == [kind |-> "Exact", amount |-> n]
MaxContent == [kind |-> "MaxContent", amount |-> 0]
MinContent == [kind |-> "MinContent", amount |-> 0]
FitContent(n) == [kind |-> "FitContent", amount |-> n]

\* The length requests a measure callback gets (enum LengthRequest).
RequestMaxContent == [request |-> "MaxContent", max_size |-> 0]
RequestMinContent == [request |-> "MinContent", max_size |-> 0]
RequestFitContent(n) == [request |-> "FitContent", max_size |-> n]

\* The match of resolve_axis_measurement on the lengths other than Exact.
RequestOfLength(length) ==
    IF length.kind = "MaxContent" THEN RequestMaxContent
    ELSE IF length.kind = "MinContent" THEN RequestMinContent
    ELSE RequestFitContent(length.amount)

\* impl Into<Length> for LengthRequest
LengthOfRequest(length_request) ==
    IF length_request.request = "MaxContent" THEN MaxContent
    ELSE IF length_request.request = "MinContent" THEN MinContent
    ELSE FitContent(length_request.max_size)

\* Label::measure: MeasureContext::text_size of the content, on the axis.
\* The text of every label of the model measures 2 x 1 units.
TextSize == <<4, 2>>
ValueForAxis(s, axis) == IF axis = "Horizontal" THEN s[1] ELSE s[2]

\* A place_object that does not mark the state as transformed.
PlaceObjectQuietly(s, position) ==
    [s EXCEPT !.layout_area.position = PointRound(position)]

\* place_object
place_object(s, position) ==
    LET p == PointRound(position)
    IN [s EXCEPT !.transformed = @ \/ (p # s.layout_area.position),
                 !.layout_area.position = p]

\* The size and the position a container's layout callback gives its i-th
\* child of n, from its own size: "stack" puts every child over the whole
\* container, "cascade" gives each half the width, a quarter width apart.
ChildSize(style, size, i) ==
    IF style = "stack" THEN size ELSE <<size[1] \div 2, size[2]>>
ChildPosition(style, size, i) ==
    IF style = "stack" THEN PointZERO ELSE <<(i - 1) * (size[1] \div 4), 0>>

RECURSIVE resolve_length(_, _, _, _, _, _)
RECURSIVE MeasureKids(_, _, _, _, _, _, _)

\* A measure that records what a label measured as the node's layout size.
MeasureStoringSize(w, id, axis, length_request, b) ==
    LET w1 == [w EXCEPT !.log = Append(@, <<"measure", id, length_request>>)]
        w2 == MaybeRequest(w1, "measure", id, b)
    IN IF objects[id].kids = <<>>
       THEN [w |-> [w2 EXCEPT !.nodes[id].state.layout_area.size = TextSize],
             value |-> ValueForAxis(TextSize, axis)]
       ELSE MeasureKids(w2, id, 1, axis, length_request, 0, b)

\* Object::measure: a label measures its text; a container asks
\* resolve_length of each child with the same request and adds them up.
\* Returns [w, value].
measure(w, id, axis, length_request, b) ==
    LET w1 == [w EXCEPT !.log = Append(@, <<"measure", id, length_request>>)]
        w2 == MaybeRequest(w1, "measure", id, b)
    IN IF objects[id].kids = <<>>
       THEN [w |-> w2, value |-> ValueForAxis(TextSize, axis)]
       ELSE MeasureKids(w2, id, 1, axis, length_request, 0, b)

MeasureKids(w, id, i, axis, length_request, acc, b) ==
    IF w.fatal \/ i > Len(objects[id].kids) THEN [w |-> w, value |-> acc]
    ELSE LET r == resolve_length(w, id, objects[id].kids[i], axis,
                                 LengthOfRequest(length_request), b)
         IN MeasureKids(r.w, id, i + 1, axis, length_request, acc + r.value, b)

\* resolve_axis_measurement
resolve_axis_measurement(w, id, axis, length, b) ==
    IF length.kind = "Exact" THEN [w |-> w, value |-> length.amount]
    ELSE measure(w, id, axis, RequestOfLength(length), b)

\* resolve_length that asks the child whatever the length is
ResolveLengthAlwaysMeasures(w, self_id, child_id, axis, fallback_length, b) ==
    IF ~get_ok(w, self_id, child_id) THEN [w |-> Panic(w), value |-> 0]
    ELSE measure(w, child_id, axis,
                 IF fallback_length.kind = "Exact"
                 THEN RequestFitContent(fallback_length.amount)
                 ELSE RequestOfLength(fallback_length), b)

\* LayoutPass::resolve_length / MeasurePass::resolve_length
resolve_length(w, self_id, child_id, axis, fallback_length, b) ==
    IF ~get_ok(w, self_id, child_id) THEN [w |-> Panic(w), value |-> 0]
    ELSE IF fallback_length.kind = "Exact"
         THEN [w |-> w, value |-> fallback_length.amount]
         ELSE resolve_axis_measurement(w, child_id, axis, fallback_length, b)

RECURSIVE layout_object(_, _, _, _)
RECURSIVE LayoutKids(_, _, _, _, _)

\* LayoutPass::place_child
place_child(w, self_id, child_id, position) ==
    IF ~get_ok(w, self_id, child_id) THEN Panic(w)
    ELSE SetState(w, child_id, place_object(w.nodes[child_id].state, position))

\* LayoutPass::do_layout without the merge
DoLayoutNoMerge(w, self_id, child_id, size, b) ==
    IF ~get_ok(w, self_id, child_id) THEN Panic(w)
    ELSE layout_object(w, child_id, size, b)

\* LayoutPass::do_layout
do_layout(w, self_id, child_id, size, b) ==
    IF ~get_ok(w, self_id, child_id) THEN Panic(w)
    ELSE LET w1 == layout_object(w, child_id, size, b)
         IN IF w1.fatal THEN w1
            ELSE SetState(w1, self_id,
                     merge_with_child(w1.nodes[self_id].state,
                                      w1.nodes[child_id].state))

\* Object::layout of a container: it lays out and places every child but
\* b.skip, and may measure one child (b.meas) before or after that.
LayoutKids(w, id, i, size, b) ==
    IF w.fatal \/ i > Len(objects[id].kids) THEN w
    ELSE LET k == objects[id].kids[i]
             st == objects[id].style
             w1 == IF k \in b.skip THEN w
                   ELSE do_layout(w, id, k, ChildSize(st, size, i), b)
             w2 == IF k \in b.skip \/ w1.fatal THEN w1
                   ELSE place_child(w1, id, k, ChildPosition(st, size, i))
         IN LayoutKids(w2, id, i + 1, size, b)

LayoutMeasures(w, id, after, b) ==
    IF \/ w.fatal
       \/ b.meas = None
       \/ Unwrap(b.meas).after # after
       \/ Unwrap(b.meas).child \notin SeqToSet(objects[id].kids)
    THEN w
    ELSE LET m == Unwrap(b.meas)
             r == resolve_length(w, id, m.child, "Horizontal", m.length, b)
         IN IF r.w.fatal THEN r.w ELSE Logged(r.w, "resolved", r.value)

layout(w, id, size, b) ==
    LET w1 == Logged(w, "layout", id)
        w2 == LayoutMeasures(w1, id, FALSE, b)
        w3 == LayoutKids(w2, id, 1, size, b)
        w4 == LayoutMeasures(w3, id, TRUE, b)
    IN IF w4.fatal THEN w4 ELSE MaybeRequest(w4, "layout", id, b)

\* layout_object without the needs_layout gate
LayoutObjectUngated(w, id, size0, b) ==
    LET size == SizeRound(size0)
    IN IF w.fatal THEN w
       ELSE LET w1 == [w EXCEPT !.nodes[id].state.needs_layout = FALSE,
                                !.nodes[id].state.layout_area.size = size]
                w2 == layout(w1, id, size, b)
            IN IF w2.fatal THEN w2
               ELSE [w2 EXCEPT !.nodes[id].state.needs_compose = TRUE,
                               !.nodes[id].state.wants_compose = TRUE]

\* layout_object that leaves needs_layout set
LayoutObjectKeepsFlag(w, id, size0, b) ==
    LET size == SizeRound(size0)
    IN IF w.fatal \/ ~w.nodes[id].state.needs_layout THEN w
       ELSE LET w1 == [w EXCEPT !.nodes[id].state.layout_area.size = size]
                w2 == layout(w1, id, size, b)
            IN IF w2.fatal THEN w2
               ELSE [w2 EXCEPT !.nodes[id].state.needs_compose = TRUE,
                               !.nodes[id].state.wants_compose = TRUE]

\* layout_object
layout_object(w, id, size0, b) ==
    LET size == SizeRound(size0)
    IN IF w.fatal \/ ~w.nodes[id].state.needs_layout THEN w
       ELSE LET w1 == [w EXCEPT !.nodes[id].state.needs_layout = FALSE,
                                !.nodes[id].state.layout_area.size = size]
                w2 == layout(w1, id, size, b)
            IN IF w2.fatal THEN w2
               ELSE [w2 EXCEPT !.nodes[id].state.needs_compose = TRUE,
                               !.nodes[id].state.wants_compose = TRUE]

\* layout_pass
layout_pass(w, b) ==
    IF w.fatal THEN w
    ELSE PassEnd(layout_object(Logged(w, "layout_pass", RootId), RootId,
                               w.inter.view_size, b))

-----------------------------------------------------------------------------
(* lib.rs: Compose pass *)

\* A set_child_scroll that stores the offset and sets no flag.
SetChildScrollQuietly(w, self_id, child_id, translation0) ==
    LET translation == PointRound(translation0)
    IN IF ~get_ok(w, self_id, child_id) THEN Panic(w)
       ELSE IF translation # w.nodes[child_id].state.scroll_translation
            THEN [Logged(w, "set_child_scroll", child_id) EXCEPT
                    !.nodes[child_id].state.scroll_translation = translation]
            ELSE Logged(w, "set_child_scroll", child_id)

\* ComposePass::set_child_scroll
set_child_scroll(w, self_id, child_id, translation0) ==
    LET translation == PointRound(translation0)
    IN IF ~get_ok(w, self_id, child_id) THEN Panic(w)
       ELSE IF translation # w.nodes[child_id].state.scroll_translation
            THEN [Logged(w, "set_child_scroll", child_id) EXCEPT
                    !.nodes[child_id].state.scroll_translation = translation,
                    !.nodes[child_id].state.transformed = TRUE]
            ELSE Logged(w, "set_child_scroll", child_id)

\* Object::compose of a container: set_child_scroll on the child b.scroll
\* names (if it is one of its own), then what else b asks for.
compose(w, id, b) ==
    LET w1 == Logged(w, "compose", id)
        w2 == IF b.scroll # None
                 /\ Unwrap(b.scroll).child \in SeqToSet(objects[id].kids)
              THEN set_child_scroll(w1, id, Unwrap(b.scroll).child,
                                    Unwrap(b.scroll).translation)
              ELSE w1
    IN IF w2.fatal THEN w2 ELSE MaybeRequest(w2, "compose", id, b)

RECURSIVE compose_object(_, _, _, _, _)
RECURSIVE ComposeEachChild(_, _, _, _, _)

\* for_each_child_object with compose_object's closure
ComposeEachChild(w, id, i, transformed, b) ==
    IF w.fatal \/ i > Len(children_ids(id)) THEN w
    ELSE LET c == children_ids(id)[i]
         IN IF ~get_ok(w, id, c) THEN Panic(w)
            ELSE LET w1 == compose_object(w, c,
                               w.nodes[id].state.global_transform,
                               transformed, b)
                     w2 == IF w1.fatal THEN w1
                           ELSE SetState(w1, id,
                                    merge_with_child(w1.nodes[id].state,
                                                     w1.nodes[c].state))
                 IN ComposeEachChild(w2, id, i + 1, transformed, b)

\* compose_object
compose_object(w, id, parent_global_transform, parent_transformed, b) ==
    LET state == w.nodes[id].state
        transformed == parent_transformed \/ state.transformed
    IN IF w.fatal \/ (~transformed /\ ~state.needs_compose) THEN w
       ELSE LET local_translation ==
                    PointAdd(state.scroll_translation, state.layout_area.position)
                gt == PointAdd(parent_global_transform, local_translation)
                w1 == [Logged(w, "compose_object", id) EXCEPT
                        !.nodes[id].state.global_transform = gt,
                        !.nodes[id].state.global_area =
                            TransformArea(gt,
                                [position |-> PointZERO,
                                 size |-> state.layout_area.size])]
                w2 == IF state.wants_compose THEN compose(w1, id, b) ELSE w1
                w3 == IF w2.fatal THEN w2
                      ELSE [w2 EXCEPT
                              !.nodes[id].state.needs_compose = FALSE,
                              !.nodes[id].state.wants_compose = FALSE,
                              !.nodes[id].state.transformed = FALSE]
            IN ComposeEachChild(w3, id, 1, transformed, b)

\* compose_pass
compose_pass(w, b) ==
    IF w.fatal THEN w
    ELSE PassEnd(compose_object(Logged(w, "compose_pass", RootId), RootId,
                                PointZERO, FALSE, b))

-----------------------------------------------------------------------------
(* lib.rs: Render pass *)

RECURSIVE render_object(_, _, _)
RECURSIVE RenderEachChild(_, _, _, _)
RECURSIVE RenderEachChildSkippingInvalid(_, _, _, _)

\* A loop over the declared children that passes over the ids the store
\* has no node for under this parent.
RenderEachChildSkippingInvalid(w, id, i, b) ==
    IF w.fatal \/ i > Len(children_ids(id)) THEN w
    ELSE LET c == children_ids(id)[i]
         IN IF ~get_ok(w, id, c)
            THEN RenderEachChildSkippingInvalid(w, id, i + 1, b)
            ELSE LET w1 == render_object(w, c, b)
                     w2 == IF w1.fatal THEN w1
                           ELSE SetState(w1, id,
                                    merge_with_child(w1.nodes[id].state,
                                                     w1.nodes[c].state))
                 IN RenderEachChildSkippingInvalid(w2, id, i + 1, b)

\* for_each_child_object with render_object's closure
RenderEachChild(w, id, i, b) ==
    IF w.fatal \/ i > Len(children_ids(id)) THEN w
    ELSE LET c == children_ids(id)[i]
         IN IF ~get_ok(w, id, c) THEN Panic(w)
            ELSE LET w1 == render_object(w, c, b)
                     w2 == IF w1.fatal THEN w1
                           ELSE SetState(w1, id,
                                    merge_with_child(w1.nodes[id].state,
                                                     w1.nodes[c].state))
                 IN RenderEachChild(w2, id, i + 1, b)

\* A render_object that draws the overlay before the children.
RenderObjectOverlayFirst(w, id, b) ==
    IF w.fatal THEN w
    ELSE LET w1 == MaybeRequest(Logged(w, "render", id), "render", id, b)
             w2 == MaybeRequest(Logged(w1, "render_overlay", id),
                                "render_overlay", id, b)
         IN RenderEachChild(w2, id, 1, b)

\* render_object; Object::render and Object::render_overlay draw and may
\* call request_layout.
render_object(w, id, b) ==
    IF w.fatal THEN w
    ELSE LET w1 == MaybeRequest(Logged(w, "render", id), "render", id, b)
             w2 == RenderEachChild(w1, id, 1, b)
         IN IF w2.fatal THEN w2
            ELSE MaybeRequest(Logged(w2, "render_overlay", id),
                              "render_overlay", id, b)

\* render_pass
render_pass(w, b) ==
    IF w.fatal THEN w
    ELSE PassEnd(render_object(Logged(w, "render_pass", RootId), RootId, b))

-----------------------------------------------------------------------------
(* lib.rs: Event pass *)

\* PointerEvent: Move { position }, Down { button }, Up { button }
Move(position) == [kind |-> "Move", position |-> position, button |-> "none"]
Down(button) == [kind |-> "Down", position |-> None, button |-> button]
Up(button) == [kind |-> "Up", position |-> None, button |-> button]

\* EventPass::capture_pointer: the receiving node becomes the capture target
capture_pointer(w, id) ==
    [Logged(w, "capture_pointer", id)
        EXCEPT !.inter.pointer_capture_target = Some(id)]

\* Object::on_pointer_event: a node in b.capture captures the pointer on a
\* Down, a node in b.handle calls set_handled.  Returns [w, handled].
on_pointer_event(w, id, event, b) ==
    LET w1 == Logged(w, "on_pointer_event", id)
        w2 == IF event.kind = "Down" /\ id \in b.capture
              THEN capture_pointer(w1, id) ELSE w1
        w3 == MaybeRequest(w2, "on_pointer_event", id, b)
    IN [w |-> w3, handled |-> id \in b.handle]

\* Object::on_hover, called by update_pointer_pass after it has set the flag.
\* TestingObject::on_hover calls set_handled, which nothing reads here.
on_hover(w, id, hovered, b) ==
    MaybeRequest(Logged(w, IF hovered THEN "on_hover_true" ELSE "on_hover_false", id),
                 "on_hover", id, b)

\* The closure of update_pointer_pass's single_event_pass with the flag the
\* other way round.
HoverCallbackInverted(h) ==
    [kind |-> "hover", event |-> Move(None), hovered |-> ~h]

\* The closures the passes are called with:
\*   "pointer"     |element, pass| element.on_pointer_event(pass, &event)
\*   "set_hovered" |_object, pass| pass.state.hovered = hovered
\*   "hover"       |object, pass| { pass.state.hovered = h; object.on_hover(pass, h) }
PointerCallback(event) == [kind |-> "pointer", event |-> event, hovered |-> FALSE]
SetHoveredCallback(h) == [kind |-> "set_hovered", event |-> Move(None), hovered |-> h]
HoverCallback(h) == [kind |-> "hover", event |-> Move(None), hovered |-> h]

\* The closures of update_pointer_pass setting the flag but never clearing it
CallbackKeepingHover(w, id, cb, b) ==
    IF cb.kind = "pointer" THEN on_pointer_event(w, id, cb.event, b)
    ELSE LET w1 == [w EXCEPT !.nodes[id].state.hovered = @ \/ cb.hovered]
         IN [w |-> IF cb.kind = "hover" THEN on_hover(w1, id, cb.hovered, b) ELSE w1,
             handled |-> FALSE]

\* What event_pass and single_event_pass call on a node.
Callback(w, id, cb, b) ==
    IF cb.kind = "pointer" THEN on_pointer_event(w, id, cb.event, b)
    ELSE LET w1 == [w EXCEPT !.nodes[id].state.hovered = cb.hovered]
         IN [w |-> IF cb.kind = "hover" THEN on_hover(w1, id, cb.hovered, b) ELSE w1,
             handled |-> FALSE]

\* The merge that follows the callback in event_pass and single_event_pass:
\* find_mut(parent_id).unwrap(), children.get_mut(node_id).unwrap(), merge.
MergeIntoParent(w, node_id, parent_id) ==
    IF ~find_ok(w, parent_id) \/ ~get_ok(w, parent_id, node_id) THEN Panic(w)
    ELSE SetState(w, parent_id,
             merge_with_child(w.nodes[parent_id].state, w.nodes[node_id].state))

\* event_pass that goes on offering the event after it was handled
RECURSIVE EventLoopIgnoringHandled(_, _, _, _, _)
EventLoopIgnoringHandled(w, target_id, handled, cb, b) ==
    IF w.fatal \/ target_id = None THEN w
    ELSE LET node_id == Unwrap(target_id)
         IN IF ~find_ok(w, node_id) THEN Panic(w)
            ELSE LET r == Callback(w, node_id, cb, b)
                     parent_id == w.parents[node_id]
                     w2 == IF parent_id # None /\ ~r.w.fatal
                           THEN MergeIntoParent(r.w, node_id, Unwrap(parent_id))
                           ELSE r.w
                 IN EventLoopIgnoringHandled(w2, parent_id, r.handled, cb, b)

\* An iteration of event_pass's loop that does not move to the parent.
EventIterationStaying(w, node_id, handled, cb, b) ==
    IF ~find_ok(w, node_id)
    THEN [w |-> Panic(w), handled |-> handled, target_id |-> None]
    ELSE LET r == IF ~handled THEN Callback(w, node_id, cb, b)
                  ELSE [w |-> w, handled |-> handled]
             parent_id == w.parents[node_id]
             w2 == IF parent_id # None /\ ~r.w.fatal
                   THEN MergeIntoParent(r.w, node_id, Unwrap(parent_id))
                   ELSE r.w
         IN [w |-> w2, handled |-> r.handled, target_id |-> Some(node_id)]

\* One iteration of the while loop of event_pass, on node_id.  Returns
\* [w, handled, target_id], the target_id being that of the next iteration.
EventIteration(w, node_id, handled, cb, b) ==
    IF ~find_ok(w, node_id)
    THEN [w |-> Panic(w), handled |-> handled, target_id |-> None]
    ELSE LET r == IF ~handled THEN Callback(w, node_id, cb, b)
                  ELSE [w |-> w, handled |-> handled]
             parent_id == w.parents[node_id]
             w2 == IF parent_id # None /\ ~r.w.fatal
                   THEN MergeIntoParent(r.w, node_id, Unwrap(parent_id))
                   ELSE r.w
         IN [w |-> w2, handled |-> r.handled, target_id |-> parent_id]

\* The while loop of event_pass
RECURSIVE EventLoop(_, _, _, _, _)
EventLoop(w, target_id, handled, cb, b) ==
    IF w.fatal \/ target_id = None THEN w
    ELSE LET r == EventIteration(w, Unwrap(target_id), handled, cb, b)
         IN EventLoop(r.w, r.target_id, r.handled, cb, b)

\* event_pass
event_pass(w, target, cb, b) ==
    IF w.fatal THEN w
    ELSE PassEnd(EventLoop(Logged(w, "event_pass", target), target, FALSE, cb, b))

\* The second loop of single_event_pass: merge each node into its parent.
RECURSIVE SingleMergeLoop(_, _)
SingleMergeLoop(w, current_id) ==
    IF w.fatal \/ current_id = None THEN w
    ELSE LET node_id == Unwrap(current_id)
         IN IF ~find_ok(w, node_id) THEN Panic(w)
            ELSE LET parent_id == w.parents[node_id]
                     w2 == IF parent_id # None
                           THEN MergeIntoParent(w, node_id, Unwrap(parent_id))
                           ELSE w
                 IN SingleMergeLoop(w2, parent_id)

\* single_event_pass that offers the callback to the ancestors as well
SingleEventPassBubbling(w, target, cb, b) ==
    IF w.fatal \/ target = None THEN w
    ELSE event_pass(w, target, cb, b)

\* single_event_pass
single_event_pass(w, target, cb, b) ==
    IF w.fatal \/ target = None THEN w
    ELSE IF ~find_ok(w, Unwrap(target)) THEN Panic(w)
    ELSE LET w1 == Logged(w, "single_event_pass", target)
             r == Callback(w1, Unwrap(target), cb, b)
         IN PassEnd(SingleMergeLoop(r.w, target))

-----------------------------------------------------------------------------
(* lib.rs: hit-testing; object_tree.rs: get_id_path, get_pointer_target *)

\* Object::accepts_pointer_events
accepts_pointer_events(id) == objects[id].accepts

\* Object::cursor_icon: Label::cursor_icon is IBeam, the trait's default is
\* Default.
cursor_icon(id) == IF objects[id].kids = <<>> THEN "IBeam" ELSE "Default"

RECURSIVE find_pointer_target(_, _, _)
RECURSIVE FindInChildren(_, _, _, _)
RECURSIVE FindInChildrenForward(_, _, _, _)

\* A loop over the children that ends at the first child whose area holds
\* the position, whether or not that child gave a target.
RECURSIVE FindInChildrenNoFallThrough(_, _, _, _)
FindInChildrenNoFallThrough(w, id, i, position) ==
    IF i < 1 THEN [ok |-> TRUE, hit |-> None]
    ELSE LET c == children_ids(id)[i]
         IN IF ~get_ok(w, id, c) THEN [ok |-> FALSE, hit |-> None]
            ELSE LET r == find_pointer_target(w, c, position)
                 IN IF \/ ~r.ok
                       \/ r.hit # None
                       \/ AreaContains(w.nodes[c].state.global_area, position)
                    THEN r
                    ELSE FindInChildrenNoFallThrough(w, id, i - 1, position)

\* The loop of find_pointer_target over children_ids().iter().rev(), from
\* index i down.  Returns [ok, hit]: ok is FALSE when the expect panicked.
FindInChildren(w, id, i, position) ==
    IF i < 1 THEN [ok |-> TRUE, hit |-> None]
    ELSE LET c == children_ids(id)[i]
         IN IF ~get_ok(w, id, c) THEN [ok |-> FALSE, hit |-> None]
            ELSE LET r == find_pointer_target(w, c, position)
                 IN IF ~r.ok \/ r.hit # None THEN r
                    ELSE FindInChildren(w, id, i - 1, position)

\* The same loop without the .rev(), from index i up.
FindInChildrenForward(w, id, i, position) ==
    IF i > Len(children_ids(id)) THEN [ok |-> TRUE, hit |-> None]
    ELSE LET c == children_ids(id)[i]
         IN IF ~get_ok(w, id, c) THEN [ok |-> FALSE, hit |-> None]
            ELSE LET r == find_pointer_target(w, c, position)
                 IN IF ~r.ok \/ r.hit # None THEN r
                    ELSE FindInChildrenForward(w, id, i + 1, position)

\* The order in which find_pointer_target without the .rev() tries children.
ChildrenInDeclaredOrder(w, id, position) ==
    FindInChildrenForward(w, id, 1, position)

\* The order in which find_pointer_target tries the children of a node.
ChildrenInHitOrder(w, id, position) ==
    FindInChildren(w, id, Len(children_ids(id)), position)

\* find_pointer_target that returns a node whether or not it accepts pointer
\* events
FindPointerTargetIgnoringOptOut(w, id, position) ==
    IF ~AreaContains(w.nodes[id].state.global_area, position)
    THEN [ok |-> TRUE, hit |-> None]
    ELSE LET r == ChildrenInHitOrder(w, id, position)
         IN IF ~r.ok \/ r.hit # None THEN r
            ELSE [ok |-> TRUE, hit |-> Some(id)]

\* find_pointer_target
find_pointer_target(w, id, position) ==
    IF ~AreaContains(w.nodes[id].state.global_area, position)
    THEN [ok |-> TRUE, hit |-> None]
    ELSE LET r == ChildrenInHitOrder(w, id, position)
         IN IF ~r.ok \/ r.hit # None THEN r
            ELSE [ok |-> TRUE,
                  hit |-> IF accepts_pointer_events(id) THEN Some(id) ELSE None]

\* An iteration of get_id_path's loop that puts the id at the front of the
\* path.
IdPathIterationTopDown(w, current, start_id, path) ==
    IF current \notin DOMAIN w.parents
    THEN [ok |-> FALSE, done |-> TRUE, path |-> path, current_id |-> None]
    ELSE LET path1 == <<current>> \o path
             current_id == w.parents[current]
         IN IF current_id = start_id \/ current_id = None
            THEN [ok |-> TRUE, done |-> TRUE,
                  path |-> IF current_id # start_id THEN <<>> ELSE path1,
                  current_id |-> current_id]
            ELSE [ok |-> TRUE, done |-> FALSE, path |-> path1,
                  current_id |-> current_id]

\* One iteration of the loop of ObjectTree::get_id_path, on current, and
\* what follows the loop when it was the last.  Returns [ok, done, path,
\* current_id]: ok is FALSE when parents.get(&current).unwrap() panicked.
IdPathIteration(w, current, start_id, path) ==
    IF current \notin DOMAIN w.parents
    THEN [ok |-> FALSE, done |-> TRUE, path |-> path, current_id |-> None]
    ELSE LET path1 == Append(path, current)
             current_id == w.parents[current]
         IN IF current_id = start_id \/ current_id = None
            THEN [ok |-> TRUE, done |-> TRUE,
                  path |-> IF current_id # start_id THEN <<>> ELSE path1,
                  current_id |-> current_id]
            ELSE [ok |-> TRUE, done |-> FALSE, path |-> path1,
                  current_id |-> current_id]

\* The loop of ObjectTree::get_id_path.  Returns [ok, path].
RECURSIVE IdPathLoop(_, _, _, _)
IdPathLoop(w, current, start_id, path) ==
    LET r == IdPathIteration(w, current, start_id, path)
    IN IF r.done THEN [ok |-> r.ok, path |-> r.path]
       ELSE IdPathLoop(w, Unwrap(r.current_id), start_id, r.path)

\* A get_id_path that always climbs to the root.
GetIdPathToRoot(w, id, start_id) ==
    IF id \notin DOMAIN w.parents THEN [ok |-> TRUE, path |-> <<>>]
    ELSE IdPathLoop(w, id, None, <<>>)

\* ObjectTree::get_id_path
get_id_path(w, id, start_id) ==
    IF id \notin DOMAIN w.parents THEN [ok |-> TRUE, path |-> <<>>]
    ELSE IdPathLoop(w, id, start_id, <<>>)

\* ObjectTree::get_pointer_target that hit-tests even when a capture
\* target is set.  Returns [ok, hit].
GetPointerTargetIgnoringCapture(w) ==
    IF w.inter.pointer_position # None
    THEN find_pointer_target(w, RootId, Unwrap(w.inter.pointer_position))
    ELSE [ok |-> TRUE, hit |-> None]

\* ObjectTree::get_pointer_target.  Returns [ok, hit].
get_pointer_target(w) ==
    IF w.inter.pointer_capture_target # None
       /\ find_ok(w, Unwrap(w.inter.pointer_capture_target))
    THEN [ok |-> TRUE, hit |-> w.inter.pointer_capture_target]
    ELSE IF w.inter.pointer_position # None
         THEN find_pointer_target(w, RootId, Unwrap(w.inter.pointer_position))
         ELSE [ok |-> TRUE, hit |-> None]

-----------------------------------------------------------------------------
(* lib.rs: hover maintenance *)

\* One of the two for loops of update_pointer_pass over a hovered path: a
\* node whose hovered flag differs from its membership of the new path gets
\* an event_pass that sets the flag.
RECURSIVE HoverLoop(_, _, _, _, _)
HoverLoop(w, path, i, hovered_set, b) ==
    IF w.fatal \/ i > Len(path) THEN w
    ELSE LET node_id == path[i]
             differs == /\ find_ok(w, node_id)
                        /\ w.nodes[node_id].state.hovered # (node_id \in hovered_set)
             w1 == IF differs
                   THEN event_pass(w, Some(node_id),
                                   SetHoveredCallback(node_id \in hovered_set), b)
                   ELSE w
         IN HoverLoop(w1, path, i + 1, hovered_set, b)

\* A resolution of the cursor icon that looks at the hovered object only.
NextCursorIconOfHit(w, next_hovered_object) ==
    IF next_hovered_object = None THEN [ok |-> TRUE, icon |-> "Default"]
    ELSE [ok |-> TRUE, icon |-> cursor_icon(Unwrap(next_hovered_object))]

\* The cursor icon update_pointer_pass resolves: of the capture target, else
\* of the hovered object, else Default.  Returns [ok, icon].

NextCursorIcon(w, next_hovered_object) ==
    LET t == IF w.inter.pointer_capture_target # None
             THEN w.inter.pointer_capture_target ELSE next_hovered_object
    IN IF t = None THEN [ok |-> TRUE, icon |-> "Default"]
       ELSE IF ~find_ok(w, Unwrap(t)) THEN [ok |-> FALSE, icon |-> "Default"]
       ELSE [ok |-> TRUE, icon |-> cursor_icon(Unwrap(t))]

\* update_pointer_pass
update_pointer_pass(w, b) ==
    IF w.fatal THEN w
    ELSE
    LET hit == IF w.inter.pointer_position = None
               THEN [ok |-> TRUE, hit |-> None]
               ELSE find_pointer_target(w, RootId, Unwrap(w.inter.pointer_position))
        next_hovered_object == hit.hit
        np == IF next_hovered_object = None THEN [ok |-> TRUE, path |-> <<>>]
              ELSE get_id_path(w, Unwrap(next_hovered_object), None)
        next_hovered_path == np.path
        prev_hovered_path == w.inter.hovered_path
        prev_hovered_object ==
            IF prev_hovered_path = <<>> THEN None ELSE Some(prev_hovered_path[1])
        hovered_set == SeqToSet(next_hovered_path)
        w0 == [Logged(w, "update_pointer_pass", RootId)
                 EXCEPT !.inter.hovered_path = <<>>]
        w1 == IF prev_hovered_path # next_hovered_path
              THEN HoverLoop(HoverLoop(w0, prev_hovered_path, 1, hovered_set, b),
                             next_hovered_path, 1, hovered_set, b)
              ELSE w0
        w2 == IF prev_hovered_object # next_hovered_object
              THEN single_event_pass(
                       single_event_pass(w1, prev_hovered_object,
                                         HoverCallback(FALSE), b),
                       next_hovered_object, HoverCallback(TRUE), b)
              ELSE w1
        ic == NextCursorIcon(w2, next_hovered_object)
    IN IF ~hit.ok \/ ~np.ok THEN Panic(w)
       ELSE IF w2.fatal THEN w2
       ELSE IF ~ic.ok THEN Panic(w2)
       ELSE [w2 EXCEPT !.inter.cursor_icon = ic.icon,
                       !.inter.hovered_path = next_hovered_path]

-----------------------------------------------------------------------------
(* object_tree.rs: the entry points of ObjectTree *)

\* InteractionState::default
InteractionDefault ==
    [view_size |-> SizeZERO,
     pointer_position |-> None,
     pointer_capture_target |-> None,
     hovered_path |-> <<>>,
     cursor_icon |-> "Default"]

\* ObjectTree::new
new(w, b) ==
    LET w1 == [w EXCEPT
                !.parents = Insert(<<>>, RootId, None),
                !.nodes = Insert(<<>>, RootId,
                              [state |-> ObjectStateNew, children |-> <<>>]),
                !.inter = InteractionDefault]
    IN update_pass(w1, b)

\* The three passes that end resize and handle_pointer_event.
LayoutUpdateCompose(w, b) == compose_pass(update_pass(layout_pass(w, b), b), b)

\* ObjectTree::resize without the early return
ResizeAlways(w, size, b) ==
    LayoutUpdateCompose([w EXCEPT !.inter.view_size = size], b)

\* ObjectTree::resize that marks the root for layout before the passes
ResizeMarkingRoot(w, size, b) ==
    IF size = w.inter.view_size THEN w
    ELSE LayoutUpdateCompose(
             [w EXCEPT !.inter.view_size = size,
                       !.nodes[RootId].state.needs_layout = TRUE], b)

\* ObjectTree::resize
resize(w, size, b) ==
    IF size = w.inter.view_size THEN w
    ELSE LayoutUpdateCompose([w EXCEPT !.inter.view_size = size], b)

\* ObjectTree::handle_pointer_event that clears the capture target of an Up
\* before it routes the event
HandlePointerEventClearingFirst(w, event, b) ==
    IF event.kind = "Move" /\ event.position = w.inter.pointer_position THEN w
    ELSE
    LET w1 == IF event.kind = "Move"
              THEN [w EXCEPT !.inter.pointer_position = event.position] ELSE w
        w2 == IF event.kind = "Up"
              THEN [Logged(w1, "clear_capture", RootId)
                        EXCEPT !.inter.pointer_capture_target = None]
              ELSE w1
        pointer_target == get_pointer_target(w2)
        w3 == IF ~pointer_target.ok THEN Panic(w2)
              ELSE event_pass(w2, pointer_target.hit, PointerCallback(event), b)
    IN LayoutUpdateCompose(update_pointer_pass(w3, b), b)

\* ObjectTree::handle_pointer_event without the early return
HandlePointerEventAlways(w, event, b) ==
    LET w1 == IF event.kind = "Move"
              THEN [w EXCEPT !.inter.pointer_position = event.position] ELSE w
        pointer_target == get_pointer_target(w1)
        w2 == IF ~pointer_target.ok THEN Panic(w1)
              ELSE event_pass(w1, pointer_target.hit, PointerCallback(event), b)
        w3 == IF ~w2.fatal /\ event.kind = "Up"
              THEN [Logged(w2, "clear_capture", RootId)
                        EXCEPT !.inter.pointer_capture_target = None]
              ELSE w2
    IN LayoutUpdateCompose(update_pointer_pass(w3, b), b)

\* ObjectTree::handle_pointer_event
handle_pointer_event(w, event, b) ==
    IF event.kind = "Move" /\ event.position = w.inter.pointer_position THEN w
    ELSE
    LET w1 == IF event.kind = "Move"
              THEN [w EXCEPT !.inter.pointer_position = event.position] ELSE w
        pointer_target == get_pointer_target(w1)
        w2 == IF ~pointer_target.ok THEN Panic(w1)
              ELSE event_pass(w1, pointer_target.hit, PointerCallback(event), b)
        w3 == IF ~w2.fatal /\ event.kind = "Up"
              THEN [Logged(w2, "clear_capture", RootId)
                        EXCEPT !.inter.pointer_capture_target = None]
              ELSE w2
    IN LayoutUpdateCompose(update_pointer_pass(w3, b), b)

-----------------------------------------------------------------------------
(* The inputs: the object tree the host loads, and what the callbacks do. *)

\* The trees view() can build: every object but the root is held, as a
\* ChildObject, by one object with a smaller id.
Shapes == {p \in [KidIds -> Ids] : \A k \in KidIds : p[k] < k}

Styles == {"stack", "cascade"}

\* accepts_pointer_events: true for all objects, or false for one of them.
AcceptChoices ==
    {[i \in Ids |-> TRUE]} \cup {[i \in Ids |-> i # x] : x \in Ids}

ObjectsOf(p, style, acc) ==
    [i \in Ids |->
        [kids |-> SortedSeq({k \in KidIds : p[k] = i}),
         style |-> style,
         accepts |-> acc[i]]]

\* The sizes the host resizes the tree to: 4 x 2 and 6.5 x 2 units.
ViewSizes == {<<8, 4>>, <<13, 4>>}

\* The pointer positions the host reports: (0.5, 0.5), (1.5, 0.5), (3.5, 0.5).
PointerPositions == {<<1, 1>>, <<3, 1>>, <<7, 1>>}

Buttons == {"Primary", "Secondary"}

PointerEvents ==
    {Move(None)} \cup {Move(Some(p)) : p \in PointerPositions}
        \cup {Down(bt) : bt \in Buttons} \cup {Up(bt) : bt \in Buttons}

\* At most one element of S.
AtMostOne(S) == {None} \cup {Some(x) : x \in S}

\* A behaviour: what the callbacks of the loaded objects do.
\*   skip     the child its parent leaves out (update_child, do_layout)
\*   reps     how often update_children calls update_child on each child
\*   req      the <<callback, id>> pairs that call request_layout
\*   meas     the resolve_length a layout callback makes:
\*            [child, length, after]
\*   scroll   the set_child_scroll a compose callback makes
\*   creq     the <<callback, id>> pairs that call request_compose
\*   handle   the id whose on_pointer_event calls set_handled
\*   capture  the id whose on_pointer_event captures the pointer on a Down
QuietB ==
    [skip |-> None, reps |-> 1, req |-> None, meas |-> None, scroll |-> None,
     creq |-> None, handle |-> None, capture |-> None]

Requests(callbacks) == AtMostOne(callbacks \X Ids)

\* update_children: one child left out, or update_child repeated.
UpdateBehaviours ==
    {[QuietB EXCEPT !.skip = sk, !.reps = n] :
        sk \in AtMostOne(KidIds), n \in 1..MaxRepeat}

\* One callback that calls request_layout.
RequestBehaviours ==
    {[QuietB EXCEPT !.req = r] :
        r \in Requests({"update_children", "layout", "measure", "compose",
                        "render", "render_overlay"})}

\* compose: one container scrolls one of its children, by 0.5 or by 1 unit
\* to the left.
ScrollBehaviours ==
    {[QuietB EXCEPT !.scroll = Some([child |-> c, translation |-> t])] :
        c \in KidIds, t \in {<<0 - 1, 0>>, <<0 - 2, 0>>}}

\* layout: one child measured, before or after the children are laid out.
MeasureBehaviours ==
    UNION {
        {[QuietB EXCEPT !.req = r,
                        !.meas = Some([child |-> c, length |-> l, after |-> a])] :
            l \in {Exact(6), MaxContent}, a \in BOOLEAN,
            r \in {None, Some(<<"measure", c>>)}} : c \in KidIds}

\* One callback that calls request_compose.
ComposeRequestBehaviours ==
    {[QuietB EXCEPT !.creq = r] : r \in Requests({"compose", "render"})}

PassBehaviours ==
    UpdateBehaviours \cup RequestBehaviours \cup MeasureBehaviours
        \cup ComposeRequestBehaviours

\* on_pointer_event: one node that calls set_handled and may capture the
\* pointer on a Down (TestingObject does both).
ClaimBehaviours ==
    UNION {
        {[QuietB EXCEPT !.handle = h, !.capture = c] : c \in {None, h}} :
            h \in AtMostOne(Ids)}

\* on_pointer_event or on_hover: one node that calls request_layout.
EventRequestBehaviours ==
    {[QuietB EXCEPT !.req = r] : r \in Requests({"on_pointer_event", "on_hover"})}

\* on_hover of the root calls request_layout, layout measures one child, and
\* the measure callback of a later object calls request_layout.
HoverMeasureBehaviours ==
    {[QuietB EXCEPT
        !.meas = Some([child |-> ck[1], length |-> MaxContent, after |-> FALSE]),
        !.req = {<<"measure", ck[2]>>, <<"on_hover", RootId>>}] :
            ck \in {x \in KidIds \X KidIds : x[1] < x[2]}}

EventBehaviours ==
    ClaimBehaviours \cup EventRequestBehaviours \cup HoverMeasureBehaviours

-----------------------------------------------------------------------------
(* The specification. *)

\* The threads that build objects; the host builds the tree on the first.
MainThread == "main"
Threads == {"main", "worker"}

\* No loop is being followed.  A walk follows one loop of lib.rs or
\* object_tree.rs an iteration at a time:
\*   kind       the function the loop is in
\*   running    the function has not returned yet
\*   target_id  the loop variable (target_id of event_pass, current_id of
\*              get_id_path)
\*   handled, event   event_pass: the flag, and the event of the callback
\*   start_id, path   get_id_path: the argument, and the path so far
\*   stack      render_object: the calls in progress, as [id, i], i being
\*              the index for_each_child_object is at (0 before the loop)
\*   seen       the ids the loop has visited, in order
NoWalk ==
    [kind |-> "none", running |-> FALSE, target_id |-> None,
     handled |-> FALSE, event |-> Move(None), start_id |-> None,
     path |-> <<>>, stack |-> <<>>, seen |-> <<>>]

\* AtomicBool (main.rs: Program.compiling, Program.latest_compile_succeeded):
\* the values of the atomic in its modification order, the initial value
\* first.  A store or swap appends a value; a swap is a read-modify-write and
\* works on the newest value.

\* A load that may return any value the atomic ever had.
LoadAnyValue(a, seen) == 1..Len(a)

\* load(Ordering::Relaxed) by a thread that has read or written position
\* seen of the modification order: the positions whose value the load may
\* return.  A Relaxed load takes part in no happens-before edge, so all that
\* bounds it is the coherence of the one atomic: it does not go back behind
\* what the thread has seen of this atomic, whatever the thread has seen of
\* another atomic.
LoadRelaxed(a, seen) == seen..Len(a)

\* The Program literal of Program::load, before start_compiling.  Beside the
\* fields of the struct:
\*   seen      the newest position of each atomic's modification order that
\*             the UI thread has read or written
\*   threads   the threads spawned by start_compiling, in order: [pc, ok],
\*             pc being "run" (in compiler::run), "result" (before
\*             latest_compile_succeeded.swap), "flag" (before
\*             compiling.swap) or "done", ok the result of compiler::run
\*   so_file   target/debug/<name>.so: None when there is no such file, else
\*             the compilation that wrote it (0: a file found at the start)
\*   starts    per call of start_compiling: the newest value of compiling
\*             and the number of threads not done, both before the call
\*   reloads   per call of reload: the compilation started last, the state
\*             of its thread, and whether the success value read was the
\*             newest
\*   recompiled, frame   the local of the last update, and how it ended
\*   panicked  App::update's expect, or the unwrap of handle, has panicked
NoProgram ==
    [handle |-> None, editing |-> FALSE, waiting_on_recompile |-> FALSE,
     compiling |-> <<FALSE>>,
     latest_compile_succeeded |-> <<TRUE>>,
     known_size |-> SizeZERO, known_pointer_position |-> None,
     seen |-> [compiling |-> 1, latest_compile_succeeded |-> 1],
     threads |-> <<>>, so_file |-> None, starts |-> <<>>, reloads |-> <<>>,
     recompiled |-> FALSE, frame |-> "none", panicked |-> FALSE]

\* The threads that have not made their last store.
LiveThreads(h) == {k \in DOMAIN h.threads : h.threads[k].pc # "done"}

\* Program::start_compiling, up to the spawn of the thread
start_compiling(h) ==
    [h EXCEPT !.waiting_on_recompile = TRUE,
              !.compiling = Append(@, TRUE),
              !.seen.compiling = Len(h.compiling) + 1,
              !.threads = Append(@, [pc |-> "run", ok |-> FALSE]),
              !.starts = Append(@, [compiling |-> h.compiling[Len(h.compiling)],
                                    live |-> Cardinality(LiveThreads(h))])]

\* Program::load
ProgramLoad(so_file) == start_compiling([NoProgram EXCEPT !.so_file = so_file])

\* Program::reload, with the success value read at position s.  When
\* Library::new finds no file the error goes through update to the expect
\* of App::update.
reload(h, s) ==
    LET k == Len(h.threads)
        h1 == [h EXCEPT !.handle = None,
                        !.reloads = Append(@,
                            [compile |-> k, pc |-> h.threads[k].pc,
                             ok |-> h.threads[k].ok,
                             newest |-> s = Len(h.latest_compile_succeeded)])]
    IN IF h.so_file = None
       THEN [h1 EXCEPT !.panicked = TRUE, !.frame = "reload_failed"]
       ELSE [h1 EXCEPT !.handle = h.so_file]

\* Program::update up to the use of the tree, for the loads returning the
\* values at positions c and s and the button clicked in this frame.
ProgramUpdate(h, c, s, click) ==
    IF h.compiling[c]
    THEN [h EXCEPT !.seen.compiling = c, !.frame = "spinner"]
    ELSE LET compile_success == h.latest_compile_succeeded[s]
             recompiled == h.waiting_on_recompile /\ compile_success
             h0 == [h EXCEPT !.seen.compiling = c,
                             !.seen.latest_compile_succeeded = s,
                             !.recompiled = recompiled]
             h1 == IF h.waiting_on_recompile /\ compile_success
                   THEN reload([h0 EXCEPT !.waiting_on_recompile = FALSE], s)
                   ELSE h0
         IN IF h1.panicked THEN h1
            ELSE IF h1.editing
            THEN LET h2 == IF click = "Confirm"
                           THEN start_compiling([h1 EXCEPT !.editing = FALSE])
                           ELSE h1
                     h3 == IF click = "Cancel"
                           THEN [h2 EXCEPT !.editing = FALSE]
                           ELSE h2
                 IN [h3 EXCEPT !.frame = "editor"]
            ELSE LET h2 == IF click = "Edit"
                           THEN [h1 EXCEPT !.editing = TRUE]
                           ELSE h1
                 IN IF ~compile_success THEN [h2 EXCEPT !.frame = "failed"]
                    ELSE IF h2.handle = None
                    THEN [h2 EXCEPT !.panicked = TRUE,
                                    !.frame = "unwrap_failed"]
                    ELSE [h2 EXCEPT !.frame = "tree"]

\* The objects of the tree were built on the main thread, one
\* ObjectBuilder::new per ChildObject, before the tree is constructed.
InitTree(styles, accepts, behaviours) ==
    /\ loaded = FALSE
    /\ \E p \in Shapes, st \in styles, acc \in accepts :
            objects = ObjectsOf(p, st, acc)
    /\ behaviour \in behaviours
    /\ newKids = KidIds
    /\ nodes = <<>>
    /\ parents = <<>>
    /\ inter = InteractionDefault
    /\ fatal = FALSE
    /\ last = [op |-> "init", arg |-> None, log |-> <<>>]
    /\ next_object_id = MaxId + 1
    /\ identities = [i \in 1..MaxId |-> [by |-> MainThread, id |-> i]]
    /\ walk = NoWalk

\* The engine driven without the host.
InitWith(styles, accepts, behaviours) ==
    /\ InitTree(styles, accepts, behaviours)
    /\ host = NoProgram

\* The state an operation leaves, and the record of what it did.
Done(op, arg, w) ==
    /\ nodes' = w.nodes
    /\ parents' = w.parents
    /\ newKids' = w.newKids
    /\ inter' = w.inter
    /\ fatal' = w.fatal
    /\ last' = [op |-> op, arg |-> arg, log |-> w.log]
    /\ UNCHANGED <<objects, behaviour>>

Running == loaded /\ ~fatal

\* reload (main.rs): ObjectTree::new(root_object)
New ==
    /\ ~loaded /\ ~fatal
    /\ loaded' = TRUE
    /\ identities' = Append(identities, [by |-> "root", id |-> RootId])
    /\ UNCHANGED <<next_object_id, walk, host>>
    /\ Done("new", None, new(World, behaviour))

\* update_pass(tree)
UpdatePass ==
    /\ Running
    /\ UNCHANGED <<loaded, next_object_id, identities, walk, host>>
    /\ Done("update_pass", None, update_pass(World, behaviour))

\* layout_pass(tree, measure_context)
LayoutPass ==
    /\ Running
    /\ UNCHANGED <<loaded, next_object_id, identities, walk, host>>
    /\ Done("layout_pass", None, layout_pass(World, behaviour))

\* compose_pass(tree)
ComposePass ==
    /\ Running
    /\ UNCHANGED <<loaded, next_object_id, identities, walk, host>>
    /\ Done("compose_pass", None, compose_pass(World, behaviour))

\* render_pass(tree, renderer)
RenderPass ==
    /\ Running
    /\ UNCHANGED <<loaded, next_object_id, identities, walk, host>>
    /\ Done("render_pass", None, render_pass(World, behaviour))

\* tree.resize(size, measure_context)
Resize ==
    /\ Running
    /\ UNCHANGED <<loaded, next_object_id, identities, walk, host>>
    /\ \E size \in ViewSizes :
            Done("resize", Some(size), resize(World, size, behaviour))

\* tree.handle_pointer_event(event, measure_context)
HandlePointerEvent ==
    /\ Running
    /\ UNCHANGED <<loaded, next_object_id, identities, walk, host>>
    /\ \E event \in PointerEvents :
            Done("handle_pointer_event", Some(event),
                 handle_pointer_event(World, event, behaviour))

\* The passes, on objects that all accept pointer events and stack their
\* children.
AllAccept == [i \in Ids |-> TRUE]

InitLayout == InitWith({"stack"}, {AllAccept}, PassBehaviours)

NextLayout ==
    \/ New
    \/ UpdatePass
    \/ LayoutPass
    \/ ComposePass
    \/ RenderPass
    \/ Resize

SpecLayout == InitLayout /\ [][NextLayout]_vars

\* The sequence s without its i-th element (Vec::remove).
RemoveAt(s, i) == SubSeq(s, 1, i - 1) \o SubSeq(s, i + 1, Len(s))

\* A container drops one of the ChildObjects it holds: from now on its
\* children_ids no longer lists that child.  A run is followed up to its
\* first drop: until then every stored node is declared by its parent.
DropChild ==
    /\ Running
    /\ \A x \in DOMAIN nodes :
          parents[x] # None =>
              x \in SeqToSet(objects[Unwrap(parents[x])].kids)
    /\ \E p \in DOMAIN nodes :
          \E i \in 1..Len(objects[p].kids) :
             /\ objects[p].kids[i] \in DOMAIN nodes
             /\ objects' = [objects EXCEPT ![p].kids = RemoveAt(@, i)]
             /\ last' = [op |-> "drop_child",
                         arg |-> Some(objects[p].kids[i]), log |-> <<>>]
    /\ UNCHANGED <<loaded, behaviour, newKids, nodes, parents, inter, fatal,
                   next_object_id, identities, walk, host>>

\* A container takes over a ChildObject that no container holds any more:
\* from now on its children_ids lists that id last.  The container is not
\* the one the store has the child under.
AdoptChild ==
    /\ Running
    /\ \E q \in DOMAIN nodes, c \in KidIds :
          /\ c # q
          /\ c \in DOMAIN parents /\ parents[c] # Some(q)
          /\ \A x \in Ids : c \notin SeqToSet(objects[x].kids)
          /\ objects' = [objects EXCEPT ![q].kids = Append(@, c)]
          /\ last' = [op |-> "adopt_child", arg |-> Some(c), log |-> <<>>]
    /\ UNCHANGED <<loaded, behaviour, newKids, nodes, parents, inter, fatal,
                   next_object_id, identities, walk, host>>

\* The passes of the host on objects that may drop and adopt children.
InitPrune == InitWith({"stack"}, {AllAccept}, UpdateBehaviours)

NextPrune ==
    \/ New
    \/ DropChild
    \/ AdoptChild
    \/ UpdatePass
    \/ LayoutPass
    \/ ComposePass
    \/ RenderPass
    \/ Resize

SpecPrune == InitPrune /\ [][NextPrune]_vars

\* The passes of the host on objects that cascade their children, where one
\* callback requests a layout or one container scrolls a child.
InitCompose ==
    InitWith({"cascade"}, {AllAccept}, RequestBehaviours \cup ScrollBehaviours)

NextCompose ==
    \/ New
    \/ LayoutPass
    \/ ComposePass
    \/ RenderPass
    \/ Resize

SpecCompose == InitCompose /\ [][NextCompose]_vars

\* AtomicU64::fetch_add(1): the value the counter gets; the value it had is
\* what the call returns.
FetchAddStuck(v) == v

fetch_add(v) == v + 1

\* ObjectBuilder::new on thread t: one atomic fetch_add on NEXT_OBJECT_ID,
\* whose previous value is the id of the builder.
ObjectBuilderNew ==
    /\ Len(identities) < MaxId + MaxCalls
    /\ \E t \in Threads :
          /\ next_object_id' = fetch_add(next_object_id)
          /\ identities' = Append(identities, [by |-> t, id |-> next_object_id])
          /\ last' = [op |-> "builder_new", arg |-> Some(t), log |-> <<>>]
    /\ UNCHANGED <<loaded, objects, behaviour, newKids, nodes, parents, inter,
                   fatal, walk, host>>

\* ObjectTree::new for a further tree of the process (the host constructs
\* one at every reload): the identity its root node gets.
ObjectTreeNew ==
    /\ Len(identities) < MaxId + MaxCalls
    /\ identities' = Append(identities, [by |-> "root", id |-> RootId])
    /\ last' = [op |-> "tree_new", arg |-> None, log |-> <<>>]
    /\ UNCHANGED <<loaded, objects, behaviour, newKids, nodes, parents, inter,
                   fatal, next_object_id, walk, host>>

\* Objects and trees being built on the threads of the process.
InitIds == InitWith({"stack"}, {AllAccept}, {QuietB})

NextIds ==
    \/ New
    \/ ObjectBuilderNew
    \/ ObjectTreeNew

SpecIds == InitIds /\ [][NextIds]_vars

\* The compilations a run of the host starts, Program::load's included.
MaxCompiles == 2

\* The buttons of Program::update: at most one is clicked in a frame.
Clicks == {"none", "Confirm", "Cancel", "Edit"}

\* The pointer events egui reports in a frame.
HostEvents == {Move(Some(<<1, 1>>))}

\* The tree of a handle that reload has just dropped.
NoTree ==
    [nodes |-> <<>>, parents |-> <<>>, newKids |-> KidIds,
     inter |-> InteractionDefault, fatal |-> FALSE, log |-> <<>>]

\* The thread of start_compiling: compiler::run returns, having renamed the
\* library to target/debug/<name>.so when it succeeded.
CompilerRun ==
    /\ ~fatal
    /\ \E k \in DOMAIN host.threads, ok \in BOOLEAN :
          /\ host.threads[k].pc = "run"
          /\ host' = [host EXCEPT !.threads[k] = [pc |-> "result", ok |-> ok],
                                  !.so_file = IF ok THEN Some(k) ELSE @]
    /\ UNCHANGED <<loaded, objects, behaviour, newKids, nodes, parents, inter,
                   fatal, last, next_object_id, identities, walk>>

\* The thread of start_compiling:
\* latest_compile_succeeded.swap(result.is_ok(), SeqCst)
StoreResult ==
    /\ ~fatal
    /\ \E k \in DOMAIN host.threads :
          /\ host.threads[k].pc = "result"
          /\ host' = [host EXCEPT !.threads[k].pc = "flag",
                                  !.latest_compile_succeeded =
                                      Append(@, host.threads[k].ok)]
    /\ UNCHANGED <<loaded, objects, behaviour, newKids, nodes, parents, inter,
                   fatal, last, next_object_id, identities, walk>>

\* The thread of start_compiling: compiling.swap(false, SeqCst), its last
\* statement.
StoreCompiling ==
    /\ ~fatal
    /\ \E k \in DOMAIN host.threads :
          /\ host.threads[k].pc = "flag"
          /\ host' = [host EXCEPT !.threads[k].pc = "done",
                                  !.compiling = Append(@, FALSE)]
    /\ UNCHANGED <<loaded, objects, behaviour, newKids, nodes, parents, inter,
                   fatal, last, next_object_id, identities, walk>>

\* The frame that ProgramUpdate has brought to h, for the window size and
\* the pointer event of the frame.  reload builds the tree of the reloaded
\* view function with ObjectTree::new; the objects of the view function are
\* the same at every reload.  From `let handle = self.handle.as_mut()
\* .unwrap()` on, update works on the tree: resize, the pointer event,
\* render_pass.
UpdateTree(h, click, window_size, event) ==
    LET reloaded == Len(h.reloads) > Len(host.reloads)
        tree == h.frame = "tree"
        moved == event # None /\ Unwrap(event).kind = "Move"
        skipped ==
            \/ event = None
            \/ moved /\ h.known_pointer_position = Unwrap(event).position
        h1 == IF ~tree THEN h
              ELSE [h EXCEPT !.known_size = window_size,
                             !.known_pointer_position =
                                 IF moved THEN Unwrap(event).position ELSE @]
    IN \A w0 \in {IF ~reloaded THEN World
                  ELSE IF h.handle = None THEN NoTree
                  ELSE new(NoTree, behaviour)} :
       \A w1 \in {IF tree /\ (h.known_size # window_size \/ h.recompiled)
                  THEN resize(w0, window_size, behaviour)
                  ELSE w0} :
       \A w2 \in {IF ~tree \/ skipped \/ w1.fatal THEN w1
                  ELSE handle_pointer_event(w1, Unwrap(event), behaviour)} :
       \A w3 \in {IF ~tree \/ w2.fatal THEN w2
                  ELSE render_pass(w2, behaviour)} :
          /\ host' = [h1 EXCEPT !.panicked = @ \/ w3.fatal]
          /\ loaded' = (h.handle # None)
          /\ identities' =
                 IF reloaded /\ h.handle # None
                 THEN Append(identities, [by |-> "root", id |-> RootId])
                 ELSE identities
          /\ Done("update", Some(click),
                  [w3 EXCEPT !.fatal = h.panicked \/ w3.fatal])

\* App::update: a frame of the UI thread.  The second load is made, and the
\* window and the pointer are looked at, only on the paths of update that
\* come to them.
Update ==
    /\ ~fatal
    /\ \E c \in LoadRelaxed(host.compiling, host.seen.compiling),
          click \in Clicks :
          /\ click = "Confirm" => Len(host.threads) < MaxCompiles
          /\ \E s \in IF host.compiling[c]
                       THEN {host.seen.latest_compile_succeeded}
                       ELSE LoadRelaxed(host.latest_compile_succeeded,
                                        host.seen.latest_compile_succeeded) :
                \A h \in {ProgramUpdate(host, c, s, click)} :
                    \E window_size \in IF h.frame = "tree" THEN ViewSizes
                                        ELSE {host.known_size},
                       event \in IF h.frame = "tree"
                                 THEN AtMostOne(HostEvents)
                                 ELSE {None} :
                        UpdateTree(h, click, window_size, event)
    /\ UNCHANGED <<next_object_id, walk>>

\* The host: the UI thread's frames and the compilation threads, from the
\* state Program::load leaves, with or without a library file left by an
\* earlier run.  The view function builds a root holding every other object.
InitHost ==
    /\ InitTree({"stack"}, {AllAccept}, {QuietB})
    /\ objects = ObjectsOf([k \in KidIds |-> RootId], "stack", AllAccept)
    /\ \E so_file \in AtMostOne({0}) : host = ProgramLoad(so_file)

NextHost ==
    \/ CompilerRun
    \/ StoreResult
    \/ StoreCompiling
    \/ Update

SpecHost == InitHost /\ [][NextHost]_vars

\* event_pass(tree, target, callback) is called, with the callback of
\* handle_pointer_event for a Down.
BeginEventPass ==
    /\ Running /\ ~walk.running
    /\ \E target \in AtMostOne(DOMAIN nodes) :
          walk' = [NoWalk EXCEPT !.kind = "event_pass", !.running = TRUE,
                                 !.target_id = target,
                                 !.event = Down("Primary")]
    /\ UNCHANGED <<loaded, objects, behaviour, newKids, nodes, parents, inter,
                   fatal, last, next_object_id, identities, host>>

\* The test of event_pass's while loop and, if it passes, one iteration.
EventPassStep ==
    /\ walk.running /\ walk.kind = "event_pass"
    /\ Len(walk.seen) <= Cardinality(Ids)
    /\ IF walk.target_id = None
       THEN /\ walk' = [walk EXCEPT !.running = FALSE]
            /\ UNCHANGED <<objects, behaviour, newKids, nodes, parents, inter,
                           fatal, last>>
       ELSE LET r == EventIteration(World, Unwrap(walk.target_id), walk.handled,
                                    PointerCallback(walk.event), behaviour)
            IN /\ Done("event_pass", Some(walk.event), r.w)
               /\ walk' = [walk EXCEPT !.target_id = r.target_id,
                                       !.handled = r.handled,
                                       !.seen = Append(@, Unwrap(walk.target_id)),
                                       !.running = ~r.w.fatal]
    /\ UNCHANGED <<loaded, next_object_id, identities, host>>

\* tree.get_id_path(id, start_id) is called; it returns at once when the
\* store has no parent entry for id.
BeginIdPath ==
    /\ Running /\ ~walk.running
    /\ \E id \in Ids, start_id \in AtMostOne(Ids) :
          walk' = [NoWalk EXCEPT !.kind = "get_id_path",
                                 !.running = id \in DOMAIN parents,
                                 !.target_id = Some(id),
                                 !.start_id = start_id]
    /\ UNCHANGED <<loaded, objects, behaviour, newKids, nodes, parents, inter,
                   fatal, last, next_object_id, identities, host>>

\* One iteration of get_id_path's while loop.
IdPathStep ==
    /\ walk.running /\ walk.kind = "get_id_path"
    /\ Len(walk.seen) <= Cardinality(Ids)
    /\ LET r == IdPathIteration(World, Unwrap(walk.target_id), walk.start_id,
                                walk.path)
       IN /\ walk' = [walk EXCEPT !.target_id = r.current_id,
                                  !.path = r.path,
                                  !.seen = Append(@, Unwrap(walk.target_id)),
                                  !.running = ~r.done]
          /\ fatal' = (fatal \/ ~r.ok)
    /\ UNCHANGED <<loaded, objects, behaviour, newKids, nodes, parents, inter,
                   last, next_object_id, identities, host>>

\* render_pass(tree, renderer) is called: render_object on the root.
BeginRender ==
    /\ Running /\ ~walk.running
    /\ walk' = [NoWalk EXCEPT !.kind = "render_pass", !.running = TRUE,
                              !.stack = <<[id |-> RootId, i |-> 0]>>]
    /\ UNCHANGED <<loaded, objects, behaviour, newKids, nodes, parents, inter,
                   fatal, last, next_object_id, identities, host>>

\* One step of the innermost render_object in progress: the render
\* callback; or one iteration of for_each_child_object, which calls
\* render_object on the child; or, after the loop, the render_overlay
\* callback and the return to the caller's closure, which merges the
\* child's state into the parent's and ends the caller's iteration.
RenderStep ==
    /\ walk.running /\ walk.kind = "render_pass"
    /\ Len(walk.stack) <= Cardinality(Ids)
    /\ LET n == Len(walk.stack)
           id == walk.stack[n].id
           i == walk.stack[n].i
       IN IF i = 0
          THEN /\ Done("render_pass", None,
                       MaybeRequest(Logged(World, "render", id), "render", id,
                                    behaviour))
               /\ walk' = [walk EXCEPT !.stack[n].i = 1,
                                       !.seen = Append(@, id)]
          ELSE IF i <= Len(children_ids(id))
          THEN IF ~get_ok(World, id, children_ids(id)[i])
               THEN /\ Done("render_pass", None, Panic(World))
                    /\ walk' = [walk EXCEPT !.running = FALSE]
               ELSE /\ walk' = [walk EXCEPT !.stack =
                            Append(@, [id |-> children_ids(id)[i], i |-> 0])]
                    /\ UNCHANGED <<objects, behaviour, newKids, nodes,
                                   parents, inter, fatal, last>>
          ELSE LET w1 == MaybeRequest(Logged(World, "render_overlay", id),
                                      "render_overlay", id, behaviour)
                   w2 == IF n = 1 THEN w1
                         ELSE SetState(w1, walk.stack[n - 1].id,
                                  merge_with_child(
                                      w1.nodes[walk.stack[n - 1].id].state,
                                      w1.nodes[id].state))
               IN /\ Done("render_pass", None, w2)
                  /\ walk' = IF n = 1
                             THEN [walk EXCEPT !.stack = <<>>,
                                               !.running = FALSE]
                             ELSE [walk EXCEPT
                                     !.stack = [SubSeq(@, 1, n - 1)
                                                 EXCEPT ![n - 1].i = @ + 1]]
    /\ UNCHANGED <<loaded, next_object_id, identities, host>>

\* A loop in progress makes its next step: the code is sequential and the
\* callbacks of the objects return.
WalkStep == EventPassStep \/ IdPathStep \/ RenderStep

\* on_pointer_event: no node calls set_handled, or the first object built
\* does.
StepBehaviours ==
    {[QuietB EXCEPT !.handle = h] : h \in AtMostOne({FirstBuilderId})}

\* The loops of the passes followed an iteration at a time, on objects that
\* cascade their children and of which one may claim pointer events.
InitSteps == InitWith({"cascade"}, {AllAccept}, StepBehaviours)

NextSteps ==
    \/ New
    \/ Resize
    \/ BeginEventPass
    \/ EventPassStep
    \/ BeginIdPath
    \/ IdPathStep
    \/ BeginRender
    \/ RenderStep

SpecSteps == InitSteps /\ [][NextSteps]_vars /\ WF_vars(WalkStep)

\* The pointer events of the host, on objects that cascade their children:
\* either all accept pointer events and one callback acts, or one object
\* may not accept them and the callbacks do nothing.
InitPointer ==
    \/ InitWith({"cascade"}, {AllAccept}, EventBehaviours)
    \/ InitWith({"cascade"}, AcceptChoices, {QuietB})

NextPointer ==
    \/ New
    \/ Resize
    \/ HandlePointerEvent

SpecPointer == InitPointer /\ [][NextPointer]_vars

-----------------------------------------------------------------------------
(* Reading the log and the tree. *)

\* The ids the log has an entry <<tag, id, ...>> for.
CallsOf(log, tag) ==
    {log[i][2] : i \in {j \in 1..Len(log) : log[j][1] = tag}}

\* The index of the first pass_end entry after index i (0 if there is none).
PassEndAfter(log, i) ==
    LET js == {j \in (i + 1)..Len(log) : log[j][1] = "pass_end"}
    IN IF js = {} THEN 0 ELSE CHOOSE j \in js : \A k \in js : j <= k

\* The proper ancestors of a stored node, by the parent links.
RECURSIVE AncestorsOf(_, _)
AncestorsOf(par, id) ==
    IF par[id] = None THEN {}
    ELSE {Unwrap(par[id])} \cup AncestorsOf(par, Unwrap(par[id]))

Flagged == {i \in DOMAIN nodes : nodes[i].state.needs_layout}

\* The ids of the log's entries <<tag, id, ...>>, in order.
RECURSIVE IdsTagged(_, _)
IdsTagged(log, tag) ==
    IF log = <<>> THEN <<>>
    ELSE (IF Head(log)[1] = tag THEN <<Head(log)[2]>> ELSE <<>>)
            \o IdsTagged(Tail(log), tag)

\* A stored node and its ancestors, bottom-up, by the parent links.
RECURSIVE ChainFrom(_, _)
ChainFrom(par, id) ==
    <<id>> \o (IF par[id] = None THEN <<>> ELSE ChainFrom(par, Unwrap(par[id])))

\* A stored node and its descendants.
Subtree(par, id) == {x \in DOMAIN par : x = id \/ id \in AncestorsOf(par, x)}

-----------------------------------------------------------------------------
(* C1 *)

\* C1: whenever request_layout was invoked on a node during a pass, every
\* ancestor of the node has needs_layout set when that pass ends.
C1_FlagPropagation ==
    ~fatal =>
        \A i \in 1..Len(last.log) :
            last.log[i][1] = "request_layout" =>
                LET j == PassEndAfter(last.log, i)
                IN j # 0 /\ AncestorsOf(parents, last.log[i][2]) \subseteq last.log[j][2]

\* The same for the requests made by any callback but measure.
C1_ExceptMeasure ==
    ~fatal =>
        \A i \in 1..Len(last.log) :
            (last.log[i][1] = "request_layout" /\ last.log[i][3] # "measure") =>
                LET j == PassEndAfter(last.log, i)
                IN j # 0 /\ AncestorsOf(parents, last.log[i][2]) \subseteq last.log[j][2]

-----------------------------------------------------------------------------
(* C2 *)

\* A second Layout pass run right now, with nothing in between.
SecondLayout == layout_pass(World, behaviour)

\* C2 as stated: after a Layout pass, a second Layout pass invokes no
\* layout callback.
C2_SecondLayoutIdle ==
    (last.op = "layout_pass" /\ ~fatal) =>
        CallsOf(SecondLayout.log, "layout") = {}

\* The callbacks that called request_layout, by the log.
Requesters(log) ==
    {log[i][3] : i \in {j \in 1..Len(log) : log[j][1] = "request_layout"}}

\* C2 amended: after a Layout pass in which no layout callback called
\* request_layout, a second Layout pass invokes no layout callback.
C2_SecondLayoutIdleUnlessRequested ==
    (last.op = "layout_pass" /\ ~fatal /\ "layout" \notin Requesters(last.log)) =>
        CallsOf(SecondLayout.log, "layout") = {}

\* A Layout pass that laid out the root and a child, without requests, has
\* just run.
C2_Witness ==
    /\ last.op = "layout_pass" /\ ~fatal
    /\ Requesters(last.log) = {}
    /\ Cardinality(CallsOf(last.log, "layout")) >= 2

-----------------------------------------------------------------------------
(* C3 *)

\* C3: resize(s) with s other than the viewport size leaves the root laid
\* out at s rounded, whatever its needs_layout flag was.
C3_ResizeLaysOutRoot ==
    Running =>
        \A s \in ViewSizes :
            LET w == resize(World, s, behaviour)
            IN (s # inter.view_size /\ ~w.fatal) =>
                    w.nodes[RootId].state.layout_area.size = SizeRound(s)

-----------------------------------------------------------------------------
(* C4 *)

\* C4: resize(s) with s the viewport size runs no pass, invokes no callback
\* and changes neither the tree nor the interaction state.
C4_ResizeSameSizeNoOp ==
    Running =>
        LET w == resize(World, inter.view_size, behaviour)
        IN /\ w.log = <<>>
           /\ w.nodes = nodes
           /\ w.parents = parents
           /\ w.newKids = newKids
           /\ w.inter = inter
           /\ w.fatal = fatal

\* resize was just called with the size the viewport already had, on a tree
\* that has work pending.
C4_Witness ==
    /\ last.op = "resize" /\ last.arg = Some(inter.view_size)
    /\ last.log = <<>>
    /\ inter.view_size # SizeZERO
    /\ Flagged # {}

-----------------------------------------------------------------------------
(* C5 *)

\* The nodes whose request has reached the root: needs_layout is set on
\* the node and on every ancestor.
Propagated ==
    {x \in Flagged : AncestorsOf(parents, x) \subseteq Flagged}

\* C5: when every layout callback lays out all its children, a Layout pass
\* invokes the layout callback of every node on the path from the root to a
\* node whose request has propagated, and of no node whose needs_layout
\* flag was clear and stayed clear.
C5_LayoutVisitsFlaggedPath ==
    (Running /\ behaviour.skip = None) =>
        LET w == layout_pass(World, behaviour)
            called == CallsOf(w.log, "layout")
        IN ~w.fatal =>
            /\ \A x \in Propagated :
                    {x} \cup AncestorsOf(parents, x) \subseteq called
            /\ called \subseteq Flagged \cup CallsOf(w.log, "request_layout")

\* A Layout pass has just visited a path of two nodes or more and left a
\* clean node alone.
C5_Witness ==
    /\ last.op = "layout_pass" /\ ~fatal /\ behaviour.skip = None
    /\ Cardinality(CallsOf(last.log, "layout")) >= 2
    /\ \E y \in DOMAIN nodes :
            /\ y \notin CallsOf(last.log, "layout")
            /\ parents[y] \subseteq CallsOf(last.log, "layout")
            /\ parents[y] # None

-----------------------------------------------------------------------------
(* C6 *)

\* How often id occurs in the sequence s.
Occurrences(s, id) == Cardinality({i \in 1..Len(s) : s[i] = id})

\* C6: however often update_child ran on a ChildObject, its node is in the
\* store once, under the parent that holds the ChildObject, its id is once
\* in that parent's child list, and one more update_child changes nothing.
C6_UpdateChildIdempotent ==
    ~fatal =>
        \A k \in KidIds :
            (\E i \in 1..Len(last.log) : last.log[i] = <<"update_child", k>>) =>
                /\ k \in DOMAIN nodes
                /\ \A p \in DOMAIN nodes :
                    Occurrences(nodes[p].children, k) =
                        IF parents[k] = Some(p) THEN 1 ELSE 0
                /\ update_child(World, Unwrap(parents[k]), k) = World

\* update_children has called update_child twice on the same ChildObject.
C6_Witness ==
    /\ ~fatal
    /\ \E i, j \in 1..Len(last.log) :
            /\ i < j
            /\ last.log[i][1] = "update_child"
            /\ last.log[j] = last.log[i]

-----------------------------------------------------------------------------
(* C7 *)

\* The chain up to and including the first node that calls set_handled.
UntilClaimed(chain) ==
    LET claimed == {i \in 1..Len(chain) : chain[i] \in behaviour.handle}
    IN IF claimed = {} THEN chain
       ELSE SubSeq(chain, 1, CHOOSE i \in claimed : \A k \in claimed : i <= k)

\* C7: the on_pointer_event callbacks a pointer event invokes are those of
\* the routed target and its successive parents, each once and in that
\* order, ending with the first node that calls set_handled, or with the
\* root if none does.
C7_BubblingOrder ==
    (last.op = "handle_pointer_event" /\ ~fatal /\ last.log # <<>>) =>
        LET target == last.log[1][2]
        IN IdsTagged(last.log, "on_pointer_event") =
                IF target = None THEN <<>>
                ELSE UntilClaimed(ChainFrom(parents, Unwrap(target)))

\* An event went from its target to a parent that claimed it, below the root.
C7_Witness ==
    /\ last.op = "handle_pointer_event" /\ ~fatal
    /\ LET offered == IdsTagged(last.log, "on_pointer_event")
       IN /\ Len(offered) >= 2
          /\ offered[Len(offered)] \in behaviour.handle
          /\ offered[Len(offered)] # RootId

-----------------------------------------------------------------------------
(* C8 *)

\* The callbacks of on_pointer_event do nothing: none claims, captures or
\* requests layout.
PointerCallbacksIdle ==
    /\ behaviour.handle = None
    /\ behaviour.capture = None
    /\ \A r \in behaviour.req : r[1] # "on_pointer_event"

\* C8: when the on_pointer_event callbacks claim nothing and do nothing, the
\* Event pass of a pointer event leaves the store, the parent links, every
\* node's state and the interaction state as they were.
C8_UnclaimedEventChangesNothing ==
    (Running /\ PointerCallbacksIdle) =>
        \A event \in PointerEvents :
            LET w1 == IF event.kind = "Move"
                      THEN [World EXCEPT !.inter.pointer_position = event.position]
                      ELSE World
                t == get_pointer_target(w1)
                w2 == event_pass(w1, t.hit, PointerCallback(event), behaviour)
            IN (t.ok /\ ~w2.fatal) =>
                    /\ w2.nodes = w1.nodes
                    /\ w2.parents = w1.parents
                    /\ w2.inter = w1.inter
                    /\ w2.newKids = w1.newKids

-----------------------------------------------------------------------------
(* C9 *)

\* What C9 says of one event, for the state as it is.
RoutedAsSpecified(event) ==
    LET w == handle_pointer_event(World, event, behaviour)
        offered == IdsTagged(w.log, "on_pointer_event")
        cap == inter.pointer_capture_target
        pos == IF event.kind = "Move" THEN event.position
               ELSE inter.pointer_position
        hit == IF pos = None THEN None
               ELSE find_pointer_target(World, RootId, Unwrap(pos)).hit
    IN ~w.fatal =>
            IF cap # None /\ cap \subseteq DOMAIN nodes
            THEN offered # <<>> /\ offered[1] = Unwrap(cap)
            ELSE IF hit # None
                 THEN offered # <<>> /\ offered[1] = Unwrap(hit)
                 ELSE offered = <<>>

DuplicateMove(event) ==
    event.kind = "Move" /\ event.position = inter.pointer_position

\* C9 as stated: every pointer event is offered first to the capture target
\* if one is set and stored, else to the hit-test result at the pointer
\* position, and to no node if there is neither.
C9_RoutingTarget ==
    Running => \A event \in PointerEvents : RoutedAsSpecified(event)

\* C9 amended: every pointer event but a Move to the position the pointer
\* already has is offered first to the capture target if one is set and
\* stored, else to the hit-test result at the pointer position, and to no
\* node if there is neither.
C9_RoutingTargetUnlessDuplicate ==
    Running =>
        \A event \in PointerEvents :
            ~DuplicateMove(event) => RoutedAsSpecified(event)

\* A Move that takes the pointer away was offered first to the capture
\* target.
C9_Witness ==
    /\ last.op = "handle_pointer_event" /\ ~fatal
    /\ last.arg = Some(Move(None))
    /\ inter.pointer_capture_target # None
    /\ LET offered == IdsTagged(last.log, "on_pointer_event")
       IN offered # <<>> /\ offered[1] = Unwrap(inter.pointer_capture_target)

-----------------------------------------------------------------------------
(* C10 *)

Contains(id, position) == AreaContains(nodes[id].state.global_area, position)

\* The pairs <<A, B>> of stored siblings, B declared after A, whose areas
\* and whose parent's area contain the position.
OverlappingSiblings(position) ==
    {ab \in (DOMAIN nodes) \X (DOMAIN nodes) :
        \E p \in DOMAIN nodes :
            /\ Contains(p, position)
            /\ Contains(ab[1], position)
            /\ Contains(ab[2], position)
            /\ \E i, j \in 1..Len(children_ids(p)) :
                    /\ i < j
                    /\ children_ids(p)[i] = ab[1]
                    /\ children_ids(p)[j] = ab[2]}

HitAt(position) == find_pointer_target(World, RootId, position)

FromSibling(b) ==
    LET kids == children_ids(Unwrap(parents[b]))
    IN {kids[j] : j \in {i \in 1..Len(kids) : \E k \in 1..i : kids[k] = b}}

-----------------------------------------------------------------------------
(* C11 *)

\* The subtree of id holds a node that takes the hit: the position is in the
\* area of id, and id accepts pointer events or the subtree of a child holds
\* such a node.
RECURSIVE TakesHit(_, _)
TakesHit(id, position) ==
    /\ Contains(id, position)
    /\ \/ accepts_pointer_events(id)
       \/ \E i \in 1..Len(children_ids(id)) :
            TakesHit(children_ids(id)[i], position)

\* What the hit-target rule asks of a target n.
MayBeTarget(n, position) ==
    /\ Contains(n, position)
    /\ accepts_pointer_events(n)
    /\ \A i \in 1..Len(children_ids(n)) :
            ~TakesHit(children_ids(n)[i], position)

\* C11: hit-testing returns n only if the position is in n's global area, no
\* descendant of n took the hit and n accepts pointer events, and returns
\* no target when no stored node is such an n.
C11_HitTargetRule ==
    Running =>
        \A position \in PointerPositions :
            HitAt(position).ok =>
                /\ \A n \in HitAt(position).hit : MayBeTarget(n, position)
                /\ (\A n \in DOMAIN nodes : ~MayBeTarget(n, position)) =>
                        HitAt(position).hit = None

\* A Move was routed to a node whose child holds the position but does not
\* accept pointer events.
C11_Witness ==
    /\ last.op = "handle_pointer_event" /\ ~fatal
    /\ last.arg # None
    /\ Unwrap(last.arg).kind = "Move"
    /\ Unwrap(last.arg).position # None
    /\ inter.pointer_capture_target = None
    /\ last.log # <<>>
    /\ last.log[1][2] # None
    /\ LET n == Unwrap(last.log[1][2])
           position == Unwrap(Unwrap(last.arg).position)
       IN /\ MayBeTarget(n, position)
          /\ \E i \in 1..Len(children_ids(n)) :
                /\ Contains(children_ids(n)[i], position)
                /\ ~accepts_pointer_events(children_ids(n)[i])

-----------------------------------------------------------------------------
(* C12 *)

\* The on_hover notifications of a log, in order, as <<id, hovered>>.
RECURSIVE HoverNotes(_)
HoverNotes(log) ==
    IF log = <<>> THEN <<>>
    ELSE (IF Head(log)[1] = "on_hover_true" THEN <<<<Head(log)[2], TRUE>>>>
          ELSE IF Head(log)[1] = "on_hover_false" THEN <<<<Head(log)[2], FALSE>>>>
          ELSE <<>>) \o HoverNotes(Tail(log))

\* The tree after the pointer, from this state, moved to p1 and then to p2.
AfterMoves(p1, p2) ==
    handle_pointer_event(
        handle_pointer_event(World, Move(Some(p1)), behaviour),
        Move(Some(p2)), behaviour)

\* The deepest node of a hovered path (leaf first), if any.
Deepest(path) == IF path = <<>> THEN None ELSE Some(path[1])

\* C12: when the pointer moves from outside the tree to a position over X
\* and then to one over a sibling Y of X, the on_hover notifications are X
\* true, X false, Y true, and no other node gets one.
C12_HoverScenario ==
    (Running /\ inter.hovered_path = <<>>) =>
        \A p1, p2 \in PointerPositions :
            LET w1 == handle_pointer_event(World, Move(Some(p1)), behaviour)
                w == AfterMoves(p1, p2)
                x == Deepest(w1.inter.hovered_path)
                y == Deepest(w.inter.hovered_path)
            IN (/\ Some(p1) # inter.pointer_position
                /\ x # None /\ y # None /\ x # y
                /\ parents[Unwrap(x)] = parents[Unwrap(y)]
                /\ ~w.fatal) =>
                    HoverNotes(w.log) =
                        << <<Unwrap(x), TRUE>>, <<Unwrap(x), FALSE>>,
                           <<Unwrap(y), TRUE>> >>

\* The pointer has just moved from over X to over a sibling Y of X.
C12_Witness ==
    /\ last.op = "handle_pointer_event" /\ ~fatal
    /\ Len(HoverNotes(last.log)) = 2
    /\ LET n == HoverNotes(last.log)
       IN /\ n[1][2] = FALSE /\ n[2][2] = TRUE
          /\ n[1][1] # n[2][1]
          /\ parents[n[1][1]] = parents[n[2][1]]
          /\ inter.hovered_path # <<>>
          /\ inter.hovered_path[1] = n[2][1]

-----------------------------------------------------------------------------
(* C13 *)

\* C13: after a pointer event was handled, a stored node's hovered flag is
\* set exactly if the node is on the hovered path.
C13_HoverFlagsMatchPath ==
    (last.op = "handle_pointer_event" /\ ~fatal) =>
        \A i \in DOMAIN nodes :
            nodes[i].state.hovered <=> i \in SeqToSet(inter.hovered_path)

-----------------------------------------------------------------------------
(* C14 *)

\* The steps of handle_pointer_event after the Event pass that routes the
\* event.
LaterSteps ==
    {"clear_capture", "update_pointer_pass", "layout_pass", "update_pass",
     "compose_pass"}

\* The tags of a log that are in the set tags, in order.
RECURSIVE TagsIn(_, _)
TagsIn(log, tags) ==
    IF log = <<>> THEN <<>>
    ELSE (IF Head(log)[1] \in tags THEN <<Head(log)[1]>> ELSE <<>>)
            \o TagsIn(Tail(log), tags)

\* The index of the first entry of a log with the tag (0 if there is none).
FirstTagged(log, tag) ==
    LET js == {j \in 1..Len(log) : log[j][1] = tag}
    IN IF js = {} THEN 0 ELSE CHOOSE j \in js : \A k \in js : j <= k

\* The cursor icon and the hovered path that hit-testing alone gives.
HitIcon(hit) == IF hit = None THEN "Default" ELSE cursor_icon(Unwrap(hit))
HitPath(hit) == IF hit = None THEN <<>> ELSE ChainFrom(parents, Unwrap(hit))

\* C14: a pointer event that is not a duplicate Move is first routed by the
\* Event pass, then an Up clears the capture target, then come hover
\* maintenance, Layout, Update and Compose; an Up is offered to the capture
\* target, and the hovered path and the cursor icon after it are those of
\* hit-testing.
C14_HandlerOrder ==
    Running =>
        \A event \in PointerEvents :
            LET w == handle_pointer_event(World, event, behaviour)
                cap == inter.pointer_capture_target
                hit == IF inter.pointer_position = None THEN None
                       ELSE HitAt(Unwrap(inter.pointer_position)).hit
                offered == IdsTagged(w.log, "on_pointer_event")
            IN (~DuplicateMove(event) /\ ~w.fatal) =>
                /\ w.log[1][1] = "event_pass"
                /\ TagsIn(w.log, LaterSteps) =
                        (IF event.kind = "Up" THEN <<"clear_capture">> ELSE <<>>)
                            \o <<"update_pointer_pass", "layout_pass",
                                 "update_pass", "compose_pass">>
                /\ \A i \in 1..Len(w.log) :
                        w.log[i][1] = "on_pointer_event" =>
                            /\ i < FirstTagged(w.log, "update_pointer_pass")
                            /\ event.kind = "Up" =>
                                    i < FirstTagged(w.log, "clear_capture")
                /\ (event.kind = "Up" /\ cap # None) =>
                        /\ offered # <<>> /\ offered[1] = Unwrap(cap)
                        /\ w.inter.pointer_capture_target = None
                        /\ w.inter.cursor_icon = HitIcon(hit)
                        /\ w.inter.hovered_path = HitPath(hit)

\* An Up was offered to the capture target, a leaf the pointer is no longer
\* over, and then cleared the capture.
C14_Witness ==
    /\ last.op = "handle_pointer_event" /\ ~fatal
    /\ last.arg # None /\ Unwrap(last.arg).kind = "Up"
    /\ LET offered == IdsTagged(last.log, "on_pointer_event")
       IN /\ offered # <<>>
          /\ offered[1] \notin SeqToSet(inter.hovered_path)
          /\ cursor_icon(offered[1]) # inter.cursor_icon
    /\ inter.pointer_capture_target = None
    /\ FirstTagged(last.log, "clear_capture") > 1

-----------------------------------------------------------------------------
(* C15 *)

\* C15: when a Down of a button makes a node the capture target, every
\* later pointer event but the Up of that button leaves the node the
\* capture target, and the Up of that button leaves no capture target.
C15_CaptureUntilMatchingUp ==
    (Running /\ inter.pointer_capture_target = None) =>
        \A button \in Buttons :
            LET w1 == handle_pointer_event(World, Down(button), behaviour)
            IN (~w1.fatal /\ w1.inter.pointer_capture_target # None) =>
                \A event \in PointerEvents :
                    LET w2 == handle_pointer_event(w1, event, behaviour)
                    IN ~w2.fatal =>
                        w2.inter.pointer_capture_target =
                            IF event = Up(button) THEN None
                            ELSE w1.inter.pointer_capture_target

-----------------------------------------------------------------------------
(* C16 *)

\* The ids that are not in the store.
StaleIds == (Ids \cup {MaxId + 1}) \ DOMAIN nodes

\* The tree with the capture target s.
Capturing(s) == [World EXCEPT !.inter.pointer_capture_target = Some(s)]

\* C16: with a capture target that is not in the store, handling a pointer
\* event does not panic, offers the event to the hit-test result and leaves
\* no capture target.
C16_StaleCaptureCleared ==
    Running =>
        \A s \in StaleIds :
            \A event \in PointerEvents :
                LET w == handle_pointer_event(Capturing(s), event, behaviour)
                    pos == IF event.kind = "Move" THEN event.position
                           ELSE inter.pointer_position
                    hit == IF pos = None THEN None ELSE HitAt(Unwrap(pos)).hit
                    offered == IdsTagged(w.log, "on_pointer_event")
                IN ~DuplicateMove(event) =>
                    /\ ~w.fatal
                    /\ w.inter.pointer_capture_target \subseteq DOMAIN nodes
                    /\ IF hit = None THEN offered = <<>>
                       ELSE offered # <<>> /\ offered[1] = Unwrap(hit)

-----------------------------------------------------------------------------
(* C17 *)

\* C17: a Move that takes the pointer away while no capture target is set
\* does not panic, invokes no on_pointer_event, and leaves an empty hovered
\* path, every hovered flag clear and the cursor icon Default.
C17_AbsentPointer ==
    (Running /\ inter.pointer_capture_target = None) =>
        LET w == handle_pointer_event(World, Move(None), behaviour)
        IN /\ ~w.fatal
           /\ IdsTagged(w.log, "on_pointer_event") = <<>>
           /\ w.inter.hovered_path = <<>>
           /\ \A i \in DOMAIN w.nodes : ~w.nodes[i].state.hovered
           /\ w.inter.cursor_icon = "Default"

\* The pointer has just left a tree in which it hovered a node below the
\* root, with no capture target.
C17_Witness ==
    /\ last.op = "handle_pointer_event" /\ ~fatal
    /\ last.arg = Some(Move(None))
    /\ inter.pointer_capture_target = None
    /\ inter.pointer_position = None
    /\ \E i \in 1..Len(last.log) :
            last.log[i][1] = "on_hover_false" /\ last.log[i][2] # RootId

-----------------------------------------------------------------------------
(* C18 *)

\* The hit-test result at the pointer position, if there is one.
HitNow ==
    IF inter.pointer_position = None THEN None
    ELSE HitAt(Unwrap(inter.pointer_position)).hit

-----------------------------------------------------------------------------
(* C19 *)

\* Following the parent links from id arrives, within n steps, at an id
\* that is stored without a parent.
RECURSIVE ReachesTop(_, _, _)
ReachesTop(par, id, n) ==
    /\ id \in DOMAIN par
    /\ \/ par[id] = None
       \/ n > 0 /\ ReachesTop(par, Unwrap(par[id]), n - 1)

\* C19: every stored id has exactly one parent entry, which is none for the
\* root only; the parent links are acyclic and lead from every stored id to
\* the root.
C19_StoreShape ==
    /\ DOMAIN parents = DOMAIN nodes
    /\ loaded => RootId \in DOMAIN nodes
    /\ \A i \in DOMAIN parents :
          /\ Cardinality(parents[i]) <= 1
          /\ parents[i] = None <=> i = RootId
          /\ parents[i] \subseteq DOMAIN nodes
          /\ ReachesTop(parents, i, Cardinality(DOMAIN parents) - 1)

\* The store holds a node below a child of the root, pushed by an
\* update_children that called update_child more than once per child.
C19_Witness ==
    /\ Running
    /\ behaviour.reps > 1
    /\ \E i \in DOMAIN parents :
          /\ parents[i] # None
          /\ Unwrap(parents[i]) # RootId
          /\ parents[Unwrap(parents[i])] = Some(RootId)

-----------------------------------------------------------------------------
(* C20 *)

\* The ids reachable from id through the children the objects declare.
RECURSIVE Declared(_)
Declared(id) ==
    {id} \cup UNION {Declared(k) : k \in SeqToSet(children_ids(id))}

\* C20: when an Update pass has run, every stored id is reachable from the
\* root through declared children: a node its parent no longer lists has
\* been removed from the store, and find of its id returns none.
C20_Reclamation ==
    (Running /\ last.op = "update_pass") =>
        \A i \in Ids : find_ok(World, i) => i \in Declared(RootId)

-----------------------------------------------------------------------------
(* C21 *)

\* The pairs <<q, c>> of a stored node q and an id c that q's object
\* declares although the store has no node c under q.
InvalidPairs(w) ==
    {pr \in (DOMAIN w.nodes) \X Ids :
        /\ pr[2] \in SeqToSet(children_ids(pr[1]))
        /\ ~get_ok(w, pr[1], pr[2])}

\* Every parent link from q up to the root is one the parent declares.
Linked(w, q) ==
    \A x \in SeqToSet(ChainFrom(w.parents, q)) :
        w.parents[x] # None =>
            x \in SeqToSet(children_ids(Unwrap(w.parents[x])))

\* q and its ancestors are each the last child their parent declares.
LastBorn(w, q) ==
    \A x \in SeqToSet(ChainFrom(w.parents, q)) :
        w.parents[x] # None =>
            LET kids == children_ids(Unwrap(w.parents[x]))
            IN kids # <<>> /\ kids[Len(kids)] = x

\* C21: a pass that comes to a declared child id that is not stored under
\* the declaring node ends fatally: the Render pass whenever such a node is
\* linked to the root, the Compose pass when the node and its ancestors need
\* composing, hit-testing when the position lies in the node and its
\* ancestors and the id is the first one looked up, the Update pass when it
\* has called update_children on the node.
C21_InvalidChildFatal ==
    loaded =>
        \A pr \in InvalidPairs(World) :
            LET q == pr[1]
                chain == SeqToSet(ChainFrom(parents, q))
            IN /\ (~fatal /\ Linked(World, q)) =>
                      render_pass(World, behaviour).fatal
               /\ (~fatal /\ Linked(World, q)
                     /\ \A x \in chain : nodes[x].state.needs_compose) =>
                      compose_pass(World, behaviour).fatal
               /\ \A position \in PointerPositions :
                     (~fatal /\ Linked(World, q) /\ LastBorn(World, q)
                        /\ children_ids(q)[Len(children_ids(q))] = pr[2]
                        /\ \A x \in chain :
                              AreaContains(nodes[x].state.global_area,
                                           position)) =>
                         ~find_pointer_target(World, RootId, position).ok
               /\ (last.op \in {"new", "update_pass"}
                     /\ q \in CallsOf(last.log, "update_children")) => fatal

\* A node below the root, linked to the root, declares as its last child an
\* id stored under another parent, and a pointer position lies in the node
\* and in the root.
C21_Witness ==
    /\ Running
    /\ \E pr \in InvalidPairs(World) :
          /\ pr[1] # RootId
          /\ pr[2] \in DOMAIN parents
          /\ Linked(World, pr[1]) /\ LastBorn(World, pr[1])
          /\ children_ids(pr[1])[Len(children_ids(pr[1]))] = pr[2]
          /\ \E position \in PointerPositions :
                \A x \in SeqToSet(ChainFrom(parents, pr[1])) :
                    AreaContains(nodes[x].state.global_area, position)

-----------------------------------------------------------------------------
(* C22 *)

\* C22: pushing an id under a node fails fatally when the store already
\* has the id under a different parent.
C22_AttachPrecondition ==
    Running =>
        \A q \in DOMAIN nodes, i \in DOMAIN nodes :
            parents[i] # Some(q) => push(World, q, i).fatal

-----------------------------------------------------------------------------
(* C23 *)

\* The part of a chain of ids that comes before s.
Before(chain, s) ==
    SubSeq(chain, 1, (CHOOSE i \in 1..Len(chain) : chain[i] = s) - 1)

\* C23: get_id_path(id, start) is the chain of id and its ancestors, bottom
\* up, ending before start (ending with the root when start is none); it is
\* empty when id is not stored or start is not a proper ancestor of id.
C23_IdPath ==
    Running =>
        \A id \in Ids \cup {MaxId + 1} :
            \A start \in AtMostOne(Ids \cup {MaxId + 1}) :
                LET r == get_id_path(World, id, start)
                IN /\ r.ok
                   /\ r.path =
                        IF id \notin DOMAIN parents THEN <<>>
                        ELSE IF start = None THEN ChainFrom(parents, id)
                        ELSE IF Unwrap(start) \in AncestorsOf(parents, id)
                        THEN Before(ChainFrom(parents, id), Unwrap(start))
                        ELSE <<>>

\* Hover maintenance has taken the path of a node two levels below the
\* root, and the path from that node to its parent is the node alone.
C23_Witness ==
    /\ last.op = "handle_pointer_event" /\ ~fatal
    /\ Len(inter.hovered_path) = 3
    /\ LET id == inter.hovered_path[1]
       IN /\ get_id_path(World, id, None).path = inter.hovered_path
          /\ get_id_path(World, id, parents[id]).path = <<id>>
          /\ get_id_path(World, id, Some(id)).path = <<>>

-----------------------------------------------------------------------------
(* C24 *)

\* The identities ObjectBuilder::new has handed out, in the order of the
\* counter's updates.
BuilderIds == SelectSeq(identities, LAMBDA e : e.by # "root")

\* Ids handed out by ObjectBuilder::new are strictly increasing, no two
\* calls on any threads return the same id, and none equals a root id.
BuilderIdsFresh ==
    /\ \A i, j \in 1..Len(BuilderIds) :
          i < j => BuilderIds[i].id < BuilderIds[j].id
    /\ \A i \in 1..Len(BuilderIds) : BuilderIds[i].id # RootId

\* C24: node identities are unique in the process and never reused, those
\* handed out by ObjectBuilder::new are strictly increasing, differ between
\* any two calls on any threads, and none equals a root id.
C24_IdentityUniqueness ==
    /\ \A i, j \in 1..Len(identities) :
          i # j => identities[i].id # identities[j].id
    /\ BuilderIdsFresh

-----------------------------------------------------------------------------
(* C25 *)

\* The nodes with needs_compose, wants_compose or transformed set.
ComposeDirty ==
    {i \in DOMAIN nodes :
        \/ nodes[i].state.needs_compose
        \/ nodes[i].state.wants_compose
        \/ nodes[i].state.transformed}

\* C25: a Compose pass visits every node that has one of the three compose
\* flags set when it starts, so that when a Compose pass has run the three
\* flags are clear on every node.
C25_ComposeCoverage ==
    (last.op = "compose_pass" /\ ~fatal) => ComposeDirty = {}

-----------------------------------------------------------------------------
(* C26 *)

\* The sum of layout position and scroll offset over id and its ancestors.
RECURSIVE OffsetSum(_, _)
OffsetSum(w, id) ==
    LET own == PointAdd(w.nodes[id].state.layout_area.position,
                        w.nodes[id].state.scroll_translation)
    IN IF w.parents[id] = None THEN own
       ELSE PointAdd(own, OffsetSum(w, Unwrap(w.parents[id])))

\* Every node reachable through declared children has the global area its
\* layout area and the offsets of its ancestors give.
GlobalGeometry(w) ==
    \A i \in Declared(RootId) \cap DOMAIN w.nodes :
        /\ w.nodes[i].state.global_area.position = OffsetSum(w, i)
        /\ w.nodes[i].state.global_area.size = w.nodes[i].state.layout_area.size

\* C26: after a Layout pass followed by a Compose pass every node reachable
\* through declared children has the global position that is the sum of
\* layout position and scroll offset over the node and its ancestors, and
\* its layout size as global size.
C26_GlobalGeometry ==
    Running =>
        LET w == compose_pass(layout_pass(World, behaviour), behaviour)
        IN ~w.fatal => GlobalGeometry(w)

\* A layout pass and a compose pass have run (in a resize), and a node
\* below a child of the root lies away from the origin because an ancestor
\* was placed or scrolled away from it.
C26_Witness ==
    /\ Running /\ last.op = "resize"
    /\ GlobalGeometry(World)
    /\ \E i \in DOMAIN nodes :
          /\ parents[i] # None /\ parents[i] # Some(RootId)
          /\ nodes[i].state.global_area.position # PointZERO
          /\ nodes[i].state.layout_area.position = PointZERO
          /\ nodes[i].state.scroll_translation = PointZERO

-----------------------------------------------------------------------------
(* C27 *)

\* The render and render_overlay entries of a log, in order.
RECURSIVE Drawn(_)
Drawn(log) ==
    IF log = <<>> THEN <<>>
    ELSE (IF Head(log)[1] \in {"render", "render_overlay"}
          THEN <<<<Head(log)[1], Head(log)[2]>>>> ELSE <<>>)
            \o Drawn(Tail(log))

\* What the claim has the Render pass emit for node id: its content, each
\* declared child from index i on in full, then its overlay.
RECURSIVE RenderOrder(_)
RECURSIVE RenderOrderOfKids(_, _)
RenderOrderOfKids(kids, i) ==
    IF i > Len(kids) THEN <<>>
    ELSE RenderOrder(kids[i]) \o RenderOrderOfKids(kids, i + 1)

RenderOrder(id) ==
    <<<<"render", id>>>> \o RenderOrderOfKids(children_ids(id), 1)
        \o <<<<"render_overlay", id>>>>

\* C27: the Render pass emits, for each node, its content, then each
\* declared child in declared order in full, then its overlay; every node
\* reachable through declared children is rendered once, whatever its flags.
C27_RenderOrder ==
    (last.op = "render_pass" /\ ~fatal) =>
        Drawn(last.log) = RenderOrder(RootId)

\* A Render pass has drawn a root with two children, or a chain of three
\* nodes, none of which had a flag set that a Layout or Compose pass acts on.
C27_Witness ==
    /\ last.op = "render_pass" /\ ~fatal
    /\ Len(Drawn(last.log)) = 2 * (MaxId + 1)
    /\ ComposeDirty = {}
    /\ \A i \in DOMAIN nodes : ~nodes[i].state.needs_layout

-----------------------------------------------------------------------------
(* C28 *)

\* C28: the Render pass leaves every node's state record, the store and the
\* interaction state as they were.
C28_RenderMutatesNothing ==
    Running =>
        LET w == render_pass(World, behaviour)
        IN ~w.fatal =>
              /\ w.nodes = nodes
              /\ w.parents = parents
              /\ w.inter = inter

-----------------------------------------------------------------------------
(* C29 *)

\* The lengths a resolve_length is asked with.
Lengths == {Exact(6), MaxContent, MinContent, FitContent(6)}

\* The stored pairs of a node and a child it declares.
StoredChildren ==
    {pr \in (DOMAIN nodes) \X (DOMAIN nodes) : get_ok(World, pr[1], pr[2])}

\* What a node's state records of its place: layout area, scroll offset,
\* global transform and global area.
Geometry(w) ==
    [i \in DOMAIN w.nodes |->
        <<w.nodes[i].state.layout_area, w.nodes[i].state.scroll_translation,
          w.nodes[i].state.global_transform, w.nodes[i].state.global_area>>]

\* C29: resolve_length on a child, with any length and with the measuring
\* of descendants it leads to, leaves every node's layout position, layout
\* size, scroll offset and global geometry as they were.
C29_MeasureKeepsGeometry ==
    Running =>
        \A pr \in StoredChildren, length \in Lengths :
            LET r == resolve_length(World, pr[1], pr[2], "Horizontal",
                                    length, behaviour)
            IN ~r.w.fatal => Geometry(r.w) = Geometry(World)

\* A child of the root that has a child of its own can be measured, the
\* nodes having been laid out at sizes other than what a label measures.
C29_Witness ==
    /\ Running
    /\ \E pr \in StoredChildren :
          /\ pr[1] = RootId
          /\ children_ids(pr[2]) # <<>>
          /\ LET r == resolve_length(World, pr[1], pr[2], "Horizontal",
                                     MaxContent, behaviour)
             IN /\ ~r.w.fatal
                /\ Len(IdsTagged(r.w.log, "measure")) = 2
          /\ \A i \in DOMAIN nodes :
                nodes[i].state.layout_area.size \notin {TextSize, SizeZERO}

-----------------------------------------------------------------------------
(* C30 *)

\* The requests the measure callback of node id was invoked with, in order.
RECURSIVE MeasuresOf(_, _)
MeasuresOf(log, id) ==
    IF log = <<>> THEN <<>>
    ELSE (IF Head(log)[1] = "measure" /\ Head(log)[2] = id
          THEN <<Head(log)[3]>> ELSE <<>>) \o MeasuresOf(Tail(log), id)

\* C30: resolve_length with Exact(n) on a stored child returns n and invokes
\* no callback; with MaxContent, MinContent or FitContent(n) it invokes the
\* child's measure callback once, with the request of the same name (and
\* the same n).
C30_ExactLength ==
    Running =>
        \A pr \in StoredChildren, length \in Lengths :
            LET r == resolve_length(World, pr[1], pr[2], "Horizontal",
                                    length, behaviour)
                asked == MeasuresOf(r.w.log, pr[2])
            IN ~r.w.fatal =>
                  IF length.kind = "Exact"
                  THEN r.value = length.amount /\ r.w.log = <<>>
                  ELSE /\ Len(asked) = 1
                       /\ asked[1].request = length.kind
                       /\ length.kind = "FitContent" =>
                             asked[1].max_size = length.amount

\* A layout callback has resolved an exact length of a stored child, other
\* than what the child measures, and no measure callback ran in that pass.
C30_Witness ==
    /\ Running /\ last.op \in {"layout_pass", "resize"}
    /\ behaviour.meas # None
    /\ Unwrap(behaviour.meas).length.kind = "Exact"
    /\ \E i \in 1..Len(last.log) :
          /\ last.log[i][1] = "resolved"
          /\ last.log[i][2] = Unwrap(behaviour.meas).length.amount
          /\ last.log[i][2] # ValueForAxis(TextSize, "Horizontal")
    /\ IdsTagged(last.log, "measure") = <<>>

-----------------------------------------------------------------------------
(* C31 *)

PassTags ==
    {"update_pass", "layout_pass", "compose_pass", "render_pass", "event_pass",
     "single_event_pass"}

\* The pass the j-th entry of a log belongs to: the tag of the last pass
\* that started before it ("none" if there is none).
PassOf(log, j) ==
    LET is == {i \in 1..(j - 1) : log[i][1] \in PassTags}
    IN IF is = {} THEN "none"
       ELSE log[CHOOSE i \in is : \A k \in is : k <= i][1]

\* The ids a pass of the log visited: those it has an entry <<tag, id>> for.
VisitedBy(log, pass, tag) ==
    {log[j][2] : j \in {k \in 1..Len(log) :
                            log[k][1] = tag /\ PassOf(log, k) = pass}}

\* The dirty flags of an ObjectState.
DirtyFlags ==
    {"needs_layout", "children_changed", "needs_compose", "wants_compose",
     "transformed"}

\* The states two nodes can have, as far as the dirty flags go.
FlagStates ==
    {[ObjectStateNew EXCEPT !.needs_layout = f[1], !.children_changed = f[2],
                            !.needs_compose = f[3], !.wants_compose = f[4],
                            !.transformed = f[5]] :
        f \in BOOLEAN \X BOOLEAN \X BOOLEAN \X BOOLEAN \X BOOLEAN}

\* Merging a child into its parent clears no flag of the parent.
MergeOnlySets ==
    \A ps, cs \in FlagStates :
        \A f \in DirtyFlags : ps[f] => merge_with_child(ps, cs)[f]

\* The flag f of the node i is clear after the step, and was set before it
\* or the node was stored in the step (ObjectState::new sets every flag).
Cleared(i, f) ==
    /\ i \in DOMAIN nodes => nodes[i].state[f]
    /\ ~nodes'[i].state[f]

\* C31: in every step, a node's needs_layout goes from set to clear only
\* if the Layout pass visited the node in that step, its
\* children_changed only if the Update pass visited it, and its
\* needs_compose, wants_compose or transformed only if the Compose pass
\* visited it; and merging a child into its parent clears no flag of the
\* parent.
C31_ClearedByConsumer ==
    [][/\ MergeOnlySets
       /\ \A i \in DOMAIN nodes' :
            /\ Cleared(i, "needs_layout") =>
                  i \in VisitedBy(last'.log, "layout_pass", "layout")
            /\ Cleared(i, "children_changed") =>
                  i \in VisitedBy(last'.log, "update_pass", "update_children")
            /\ \A f \in {"needs_compose", "wants_compose", "transformed"} :
                  Cleared(i, f) =>
                      i \in VisitedBy(last'.log, "compose_pass", "compose_object")
      ]_vars

\* A resize whose three passes visited a node below the root, and left all
\* its dirty flags clear, although a callback of the node had requested a
\* layout in one of them.
C31_Witness ==
    /\ Running /\ last.op = "resize"
    /\ \E i \in DOMAIN nodes :
          /\ i # RootId
          /\ i \in VisitedBy(last.log, "layout_pass", "layout")
          /\ i \in VisitedBy(last.log, "compose_pass", "compose_object")
          /\ i \in CallsOf(last.log, "request_layout")
          /\ \A f \in DirtyFlags : ~nodes[i].state[f]

-----------------------------------------------------------------------------
(* C32 *)

\* No id occurs twice in the sequence.
NoRepeat(s) == \A i, j \in 1..Len(s) : i # j => s[i] # s[j]

\* The passes, run as a whole: no pass invokes one callback of one node
\* more often than once.
RECURSIVE OncePerPass(_, _, _)
OncePerPass(log, tag, seenIds) ==
    IF log = <<>> THEN TRUE
    ELSE IF Head(log)[1] \in PassTags THEN OncePerPass(Tail(log), tag, {})
    ELSE IF Head(log)[1] = tag
         THEN /\ Head(log)[2] \notin seenIds
              /\ OncePerPass(Tail(log), tag, seenIds \cup {Head(log)[2]})
         ELSE OncePerPass(Tail(log), tag, seenIds)

\* C32: a loop of event_pass, of get_id_path or of render_object with
\* for_each_child_object, once entered on a store that New and resize
\* built, is left after finitely many iterations; event bubbling and
\* get_id_path visit no id twice, render_object enters no node twice, and
\* an Update, Layout or Compose pass invokes the update_children, layout or
\* compose callback of a node at most once.
C32_PassesTerminate ==
    /\ walk.running ~> ~walk.running
    /\ [](NoRepeat(walk.seen))
    /\ [](\A tag \in {"update_children", "layout", "compose", "compose_object"} :
              OncePerPass(last.log, tag, {}))

\* event_pass has returned after it went from a node two levels below the
\* root up to the root, the event having been claimed on the way.
C32_Witness ==
    /\ walk.kind = "event_pass" /\ ~walk.running /\ ~fatal
    /\ Len(walk.seen) = 3
    /\ walk.seen[3] = RootId
    /\ walk.handled
    /\ walk.target_id = None

-----------------------------------------------------------------------------
(* C33 *)

\* The nodes the pass stored: those the log has an update_child for, by
\* the parent that declares them, and that are in the store now.
Instantiated ==
    {k \in KidIds \cap DOMAIN nodes :
        /\ k \in CallsOf(last.log, "update_child")
        /\ parents[k] # None
        /\ k \in SeqToSet(children_ids(Unwrap(parents[k])))}

\* C33: at the end of an Update pass that stored a new child its parent
\* declares, needs_layout is set on the new node and on every ancestor of
\* it, and children_changed is clear on the new node and on every node the
\* pass visited.
C33_NewNodePropagation ==
    (last.op \in {"new", "update_pass"} /\ ~fatal) =>
        \A k \in Instantiated :
            /\ \A a \in SeqToSet(ChainFrom(parents, k)) :
                  nodes[a].state.needs_layout
            /\ ~nodes[k].state.children_changed
            /\ \A v \in VisitedBy(last.log, "update_pass", "update_children") :
                  ~nodes[v].state.children_changed

\* An Update pass has stored a node two levels below the root.
C33_Witness ==
    /\ last.op = "new" /\ ~fatal
    /\ \E k \in Instantiated :
          /\ Len(ChainFrom(parents, k)) = 3
          /\ k \in VisitedBy(last.log, "update_pass", "update_children")

-----------------------------------------------------------------------------
(* C34 *)

\* The offsets a compose callback asks for: none, 0.5, 1 and 2 units to the
\* left.
ScrollTranslations == {PointZERO, <<0 - 1, 0>>, <<0 - 2, 0>>, <<0 - 4, 0>>}

\* The objects whose compose callback scrolls child c to t, if c is theirs.
ScrollTo(c, t) ==
    [QuietB EXCEPT !.scroll = Some([child |-> c, translation |-> t])]

\* The index of the first set_child_scroll of a log (0 if there is none).
FirstScroll(log) == FirstTagged(log, "set_child_scroll")

\* What C34 says of a Compose pass in which the parent of c scrolls c to t.
ScrollReflected(c, t) ==
    LET w == compose_pass(World, ScrollTo(c, t))
        i == FirstScroll(w.log)
        changed == PointRound(t) # nodes[c].state.scroll_translation
    IN (~w.fatal /\ i # 0 /\ changed) =>
          /\ \E j \in (i + 1)..Len(w.log) : w.log[j] = <<"compose_object", c>>
          /\ w.nodes[c].state.scroll_translation = PointRound(t)
          /\ \A d \in Subtree(w.parents, c) \cap Declared(RootId) :
                /\ w.nodes[d].state.global_area.position = OffsetSum(w, d)
                /\ ~w.nodes[d].state.transformed

\* What C34 says of the call set_child_scroll(c, t) by the parent of c.
ScrollFlags(c, t) ==
    LET w == set_child_scroll(World, Unwrap(parents[c]), c, t)
    IN IF PointRound(t) = nodes[c].state.scroll_translation
       THEN w.nodes = nodes
       ELSE /\ w.nodes[c].state.transformed
            /\ w.nodes[c].state.scroll_translation = PointRound(t)

\* C34: when the compose callback of a parent changes the scroll offset of
\* a child with set_child_scroll, the call sets the child's transformed
\* flag, and the Compose pass then visits the child, so that at the end of
\* the pass the global position of the child and of each of its
\* descendants is the sum of the layout positions and scroll offsets up to
\* the root; a call with an offset that rounds to the stored one changes no
\* node.
C34_ScrollWithinCompose ==
    Running =>
        \A c \in KidIds \cap Declared(RootId), t \in ScrollTranslations :
            get_ok(World, Unwrap(parents[c]), c) =>
                /\ ScrollFlags(c, t)
                /\ ScrollReflected(c, t)

\* A Compose pass has moved a child, and the child's child with it, by a
\* scroll offset the parent's compose callback set in that pass.
C34_Witness ==
    /\ Running /\ last.op \in {"compose_pass", "resize"}
    /\ behaviour.scroll # None
    /\ LET c == Unwrap(behaviour.scroll).child
           i == FirstScroll(last.log)
       IN /\ i # 0
          /\ \E j \in (i + 1)..Len(last.log) :
                last.log[j] = <<"compose_object", c>>
          /\ nodes[c].state.scroll_translation # PointZERO
          /\ \E d \in Subtree(parents, c) :
                /\ d # c
                /\ nodes[d].state.global_area.position = OffsetSum(World, d)

-----------------------------------------------------------------------------
(* C35 *)

\* A hovered path is empty, or goes from its first id by the parent links
\* to the root, which is its last id, without an id twice.
PathShape(path) ==
    \/ path = <<>>
    \/ /\ path[1] \in DOMAIN parents
       /\ path = ChainFrom(parents, path[1])
       /\ path[Len(path)] = RootId
       /\ NoRepeat(path)

-----------------------------------------------------------------------------
(* C36 *)

\* C36: handle_pointer_event with a Move to the position the pointer has,
\* or with a Move away when the pointer is away, invokes no callback, runs
\* no pass and leaves the store, every node's state, the capture target,
\* the hovered path, the cursor icon and the rest of the interaction state
\* as they were.
C36_DuplicateMoveNoOp ==
    Running =>
        \A event \in PointerEvents :
            DuplicateMove(event) =>
                LET w == handle_pointer_event(World, event, behaviour)
                IN /\ w.log = <<>>
                   /\ w.nodes = nodes
                   /\ w.parents = parents
                   /\ w.newKids = newKids
                   /\ w.inter = inter
                   /\ w.fatal = fatal

\* A Move to the position the pointer already had was just handled, on a
\* tree whose geometry a resize had changed under the pointer: the hovered
\* path does not start with the node hit-testing finds there now.
C36_Witness ==
    /\ last.op = "handle_pointer_event" /\ ~fatal
    /\ last.arg = Some(Move(inter.pointer_position))
    /\ last.log = <<>>
    /\ inter.pointer_position # None
    /\ Deepest(inter.hovered_path) # HitNow

-----------------------------------------------------------------------------
(* C37 *)

\* The notifications a step delivers when the deepest hovered node was
\* prev before it and is next after it.
PairedNotes(prev, next) ==
    IF prev = next THEN <<>>
    ELSE (IF prev = None THEN <<>> ELSE << <<Unwrap(prev), FALSE>> >>)
            \o (IF next = None THEN <<>> ELSE << <<Unwrap(next), TRUE>> >>)

\* C37: every step delivers on_hover(false) to the node that was the
\* deepest hovered node and on_hover(true) to the node that is it now, in
\* this order, when the two differ, and no other on_hover.  Nothing being
\* hovered at the start, the notifications of one node therefore alternate
\* between true and false, the first being true, and the false of the old
\* deepest node comes before the true of the new one.
C37_HoverPairing ==
    [][~fatal' =>
          HoverNotes(last'.log) =
              PairedNotes(Deepest(inter.hovered_path),
                          Deepest(inter'.hovered_path))]_vars

\* The pointer has just moved from a node to a child of that node: the
\* node was told that it is no longer hovered, then the child that it is.
C37_Witness ==
    /\ last.op = "handle_pointer_event" /\ ~fatal
    /\ Len(HoverNotes(last.log)) = 2
    /\ LET n == HoverNotes(last.log)
       IN /\ n[1][2] = FALSE /\ n[2][2] = TRUE
          /\ parents[n[2][1]] = Some(n[1][1])
          /\ Deepest(inter.hovered_path) = Some(n[2][1])

-----------------------------------------------------------------------------
(* C38 *)

\* The position is in the area of n, n does not accept pointer events and
\* no child of n holds a node that takes the hit.
OptsOut(n, position) ==
    /\ Contains(n, position)
    /\ ~accepts_pointer_events(n)
    /\ \A i \in 1..Len(children_ids(n)) :
          ~TakesHit(children_ids(n)[i], position)

\* The children of par, by index, that hold a node that takes the hit.
Takers(par, position, indices) ==
    {j \in indices : TakesHit(children_ids(par)[j], position)}

\* Hit-testing the parent of n goes on, after n, with the siblings declared
\* before n, the later first, and then with the parent itself.
FallsThrough(n, position) ==
    LET par == Unwrap(parents[n])
        kids == children_ids(par)
        i == CHOOSE j \in 1..Len(kids) : kids[j] = n
        earlier == Takers(par, position, 1..(i - 1))
        r == find_pointer_target(World, par, position)
    IN (Contains(par, position)
            /\ Takers(par, position, (i + 1)..Len(kids)) = {}) =>
          /\ r.ok
          /\ IF earlier # {}
             THEN LET k == CHOOSE j \in earlier : \A x \in earlier : x <= j
                  IN /\ r.hit # None
                     /\ r.hit \subseteq Subtree(parents, kids[k])
             ELSE r.hit = IF accepts_pointer_events(par) THEN Some(par)
                          ELSE None

\* The event is routed to, the hover goes to and the icon comes from: the
\* capture target, else the hit-test result.
RoutedAt(pos) ==
    get_pointer_target([World EXCEPT !.inter.pointer_position = pos]).hit

\* C38: when the position is in the area of a node that does not accept
\* pointer events and no descendant of the node takes the hit, hit-testing
\* goes on with the siblings declared before the node and then with the
\* parent.  A pointer event is not routed to such a node unless it is the
\* capture target; it is not the deepest hovered node; and the cursor icon
\* is that of the capture target or else of the deepest hovered node, so
\* not read from such a node unless it is the capture target.
C38_OptOutFallThrough ==
    Running =>
        /\ \A position \in PointerPositions :
              \A n \in DOMAIN nodes :
                  OptsOut(n, position) =>
                      /\ HitAt(position).hit # Some(n)
                      /\ n # RootId => FallsThrough(n, position)
                      /\ n = RootId => HitAt(position).hit = None
                      /\ RoutedAt(Some(position)) = Some(n) =>
                            inter.pointer_capture_target = Some(n)
        /\ \A n \in DOMAIN nodes :
              ~accepts_pointer_events(n) =>
                  Deepest(inter.hovered_path) # Some(n)
        /\ (last.op = "handle_pointer_event" /\ last.log # <<>>) =>
              inter.cursor_icon =
                  IF inter.pointer_capture_target # None
                  THEN cursor_icon(Unwrap(inter.pointer_capture_target))
                  ELSE HitIcon(Deepest(inter.hovered_path))

\* A Move to a position inside two siblings, of which the later does not
\* accept pointer events and has no child, was routed to the earlier one,
\* which is hovered now.
C38_Witness ==
    /\ last.op = "handle_pointer_event" /\ ~fatal
    /\ last.arg # None
    /\ Unwrap(last.arg).kind = "Move"
    /\ Unwrap(last.arg).position # None
    /\ \E ab \in OverlappingSiblings(Unwrap(Unwrap(last.arg).position)) :
          /\ OptsOut(ab[2], Unwrap(Unwrap(last.arg).position))
          /\ last.log[1] = <<"event_pass", Some(ab[1])>>
          /\ Deepest(inter.hovered_path) = Some(ab[1])

-----------------------------------------------------------------------------
(* C39 *)

\* What an update that read compiling as true leaves of the Program h.
SpinnerOnly(h, after) ==
    after = [h EXCEPT !.seen.compiling = after.seen.compiling,
                      !.frame = "spinner"]

\* C39: at most one compilation thread has not yet made its last store;
\* every call of start_compiling found the compiling flag false and no
\* such thread; and while there is such a thread every load of the UI
\* thread returns true for the flag, on which update returns with nothing
\* but the spinner, whatever button was clicked.
C39_CompileExclusion ==
    /\ Cardinality(LiveThreads(host)) <= 1
    /\ \A i \in DOMAIN host.starts :
          ~host.starts[i].compiling /\ host.starts[i].live = 0
    /\ \A c \in LoadRelaxed(host.compiling, host.seen.compiling) :
          /\ LiveThreads(host) # {} => host.compiling[c]
          /\ host.compiling[c] =>
                \A click \in Clicks :
                    SpinnerOnly(host,
                        ProgramUpdate(host, c,
                            host.seen.latest_compile_succeeded, click))

\* Confirm was clicked in the editor after the first compilation had ended:
\* the second compilation is running, and the frames before were spinners
\* while the first one ran.
C39_Witness ==
    /\ last.op = "update" /\ last.arg = Some("Confirm")
    /\ Len(host.threads) = 2
    /\ host.threads[1].pc = "done"
    /\ host.threads[2].pc = "run"
    /\ host.waiting_on_recompile /\ ~host.editing
    /\ host.compiling[Len(host.compiling)]

-----------------------------------------------------------------------------
(* C40 *)

\* C40: every call of reload was made when the thread of the compilation
\* started last had made its last store and that compilation had succeeded;
\* no two calls of reload belong to the same compilation; and the unwrap of
\* the handle, before resize, events and render, never finds None.
C40_ReloadGating ==
    /\ \A i \in DOMAIN host.reloads :
          host.reloads[i].pc = "done" /\ host.reloads[i].ok
    /\ \A i, j \in DOMAIN host.reloads :
          i # j => host.reloads[i].compile # host.reloads[j].compile
    /\ host.frame # "unwrap_failed"

\* What holds of reload whatever the loads return: the thread of the
\* compilation started last has made its last store, reload is called once
\* per compilation at most, and the handle is there when it is unwrapped.
C40_ExceptSuccessValue ==
    /\ \A i \in DOMAIN host.reloads : host.reloads[i].pc = "done"
    /\ \A i, j \in DOMAIN host.reloads :
          i # j => host.reloads[i].compile # host.reloads[j].compile
    /\ host.frame # "unwrap_failed"
    /\ host.frame = "tree" => host.handle # None

\* A reload that read the newest success value followed a compilation that
\* succeeded.
C40_NewestValueIsRight ==
    \A i \in DOMAIN host.reloads :
        host.reloads[i].newest => host.reloads[i].ok

====
